---- MODULE Spec2Model ----
(***************************************************************************)
(* go-easyrsa: the PKI engine (pkg/pki), the file-backed serial provider   *)
(* and CRL holder and the directory key storage (internal/fsStorage), and  *)
(* the root-package variant of the engine (package easyrsa).               *)
(*                                                                         *)
(* Serials are math/big integers.  A big integer is modelled as the        *)
(* big-endian sequence of its hexadecimal digits (values 0..15) without    *)
(* leading zeros; zero is the empty sequence.  Text is modelled as a       *)
(* sequence of ASCII codes, so that formatting (big.Int.Text(16)) and      *)
(* parsing (big.Int.SetString, strconv.ParseInt) are real conversions and  *)
(* file names can be compared the way filepath.Walk orders them.           *)
(***************************************************************************)
EXTENDS Integers, Sequences, FiniteSets, TLC

(***************************************************************************)
(* Program constants                                                       *)
(***************************************************************************)
\* the base of Text(16), SetString(_, 16) and ParseInt(_, 16, _)
HexBase == 16
\* the bitSize argument of strconv.ParseInt and the width of big.Int.Int64
Int64Bits == 64

(***************************************************************************)
(* Bounds of the model                                                     *)
(***************************************************************************)
\* calls of Next() each thread makes in the concurrent provider model
MaxCalls == 2
\* direct calls of DirKeyStorage.Put
MaxPuts == 3
\* calls of NewCa / NewCert, failing ones included
MaxOps == 3
\* issuances on a fresh keydir when no call fails (past 16, where the
\* counter file goes from "f" to "10")
MaxFresh == 17
\* NewCa calls among them
MaxFreshCa == 3
\* calls of NewCa / RevokeOne by the single caller of the revocation models
MaxRevOps == 4
\* calls of NewCa / RevokeOne, all processes together, in the concurrent model
MaxCrlOps == 4
\* calls of FileCRLHolder.Put / Get, all threads together
MaxHolderOps == 3

(***************************************************************************)
(* Big integers and text                                                   *)
(***************************************************************************)
\* hexadecimal digits of a 64-bit word
WordDigits == Int64Bits \div 4

Front(s) == SubSeq(s, 1, Len(s) - 1)

Last(s) == s[Len(s)]

RECURSIVE Strip(_)
\* drop leading zero digits
Strip(s) ==
    IF s = <<>> THEN <<>>
    ELSE IF s[1] = 0 THEN Strip(Tail(s)) ELSE s

RECURSIVE Add1(_)
\* res.Add(big.NewInt(1), res)
Add1(x) ==
    IF x = <<>> THEN <<1>>
    ELSE IF Last(x) = HexBase - 1
         THEN Add1(Front(x)) \o <<0>>
         ELSE Front(x) \o <<Last(x) + 1>>

RECURSIVE LexLess(_, _)
\* s before t in byte-wise lexical order (a proper prefix sorts first)
LexLess(s, t) ==
    IF t = <<>> THEN FALSE
    ELSE IF s = <<>> THEN TRUE
    ELSE IF s[1] # t[1] THEN s[1] < t[1]
    ELSE LexLess(Tail(s), Tail(t))

\* big.Int.Cmp for non-negative values: -1, 0 or 1
Cmp(x, y) ==
    IF x = y THEN 0
    ELSE IF Len(x) # Len(y) THEN (IF Len(x) < Len(y) THEN -1 ELSE 1)
    ELSE IF LexLess(x, y) THEN -1 ELSE 1

RECURSIVE Val(_)
\* the value of a (small) big integer as a number of the model
Val(x) == IF x = <<>> THEN 0 ELSE HexBase * Val(Front(x)) + Last(x)

RECURSIVE FromNat(_)
\* big.NewInt(n) for n >= 0
FromNat(n) == IF n = 0 THEN <<>> ELSE FromNat(n \div HexBase) \o <<n % HexBase>>

\* a digit written as if the base were at most ten
HexChar_Decimal(d) == 48 + d

\* ASCII code of a hexadecimal digit, lowercase ('0' = 48, 'a' = 97)
HexChar(d) == IF d < 10 THEN 48 + d ELSE 87 + d

IsHexChar(c) == (c >= 48 /\ c <= 57) \/ (c >= 97 /\ c <= 102) \/ (c >= 65 /\ c <= 70)

HexVal(c) == IF c <= 57 THEN c - 48 ELSE IF c >= 97 THEN c - 87 ELSE c - 55

\* big.Int.Text(16): lowercase, no prefix, no leading zeros, "0" for zero
Text16(x) == IF x = <<>> THEN <<48>> ELSE [i \in 1..Len(x) |-> HexChar(x[i])]

RECURSIVE HexPrefix(_)
\* the longest prefix of hexadecimal digits of a text, as digit values
HexPrefix(s) ==
    IF s = <<>> \/ ~IsHexChar(s[1]) THEN <<>>
    ELSE <<HexVal(s[1])>> \o HexPrefix(Tail(s))

\* big.Int.SetString(s, 16) as Next() uses it: the result flag is ignored and
\* the receiver keeps what the scanner read (nothing read leaves it zero)
SetString16(s) == Strip(HexPrefix(s))

\* does the value fit in a signed 64-bit integer (below 2^63)
FitsInt64(x) ==
    \/ Len(x) < WordDigits
    \/ Len(x) = WordDigits /\ x[1] < HexBase \div 2

\* strconv.ParseInt(s, 16, 64) of an unsigned text: ok is FALSE on a syntax
\* error (empty, a character that is no digit) and on a range error
ParseInt(s) ==
    LET digits == HexPrefix(s)
        v == Strip(digits)
    IN  IF s # <<>> /\ Len(digits) = Len(s) /\ FitsInt64(v)
        THEN [ok |-> TRUE, val |-> v]
        ELSE [ok |-> FALSE, val |-> <<>>]

\* big.Int.Int64 of a non-negative value: the low 64 bits
Int64(x) ==
    IF Len(x) <= WordDigits THEN x
    ELSE Strip(SubSeq(x, Len(x) - WordDigits + 1, Len(x)))

(***************************************************************************)
(* State                                                                   *)
(***************************************************************************)
VARIABLES
    serialFile,   \* <keydir>/serial: [exists, data (text)]
    slock,        \* serial.lock: per process, the Flock object's flag l
    sflock,       \* serial.lock: per process, the flock(2) mode its descriptor holds
    npc,          \* per thread: where its Next() call stands
    nBytes,       \* per thread: sBytes, what Next() read
    nRes,         \* per thread: res, the value Next() computed
    nCalls,       \* per thread: calls of Next() started
    returned,     \* values returned by successful Next() calls, in order of return
    dirs,         \* <keydir>/<cn> directories that exist
    files,        \* files <keydir>/<cn>/<name>.<ext>: records [cn, name, ext, data]
    lastPut,      \* the pair of the Put that has just succeeded, or NoPair
    nPuts,        \* direct calls of DirKeyStorage.Put so far
    issued,       \* the pairs returned by successful NewCa / NewCert calls, in order
    nOps,         \* calls made on the PKI so far
    crlFile,      \* <keydir>/crl.pem: [exists, data]
    revCalled,    \* serials RevokeOne has been called with
    revDone,      \* serials whose RevokeOne has returned success
    revOrder,     \* those serials in the order of their first successful revocation
    rpc,          \* per process: where its RevokeOne call stands
    rSerial,      \* per process: the serial its RevokeOne was called with
    rPem,         \* per process: crlPem, the list its RevokeOne built
    crlLock,      \* crl.pem.lock: per process, the mode its FileCRLHolder's lock holds
    crlFlag,      \* per process: the flags l and r of its FileCRLHolder's Flock
    hpc,          \* per thread: where its FileCRLHolder.Put or Get call stands
    spc,          \* per thread: where its DirKeyStorage.Put or GetBySerial call stands
    seen          \* what the last observed call was given and what it returned

serialVars == <<slock, sflock, npc, nBytes, nRes, nCalls, returned>>

storeVars == <<dirs, files>>

\* what the steps of a concurrent Next() leave alone
putVars == <<lastPut, nPuts>>

pkiVars == <<issued, nOps>>

revVars == <<revCalled, revDone, revOrder>>

crlVars == <<crlFile, revVars>>

rcVars == <<rpc, rSerial, rPem, crlLock>>

\* direct callers of FileCRLHolder and the observation of single calls
sideVars == <<crlFlag, hpc, seen, spc>>

\* where the concurrent callers of Next() and of RevokeOne stand
callerVars == <<serialVars, rcVars, sideVars>>

outsideSerial == <<storeVars, putVars, pkiVars, crlVars, rcVars, sideVars>>

vars == <<serialFile, serialVars, outsideSerial>>

\* goroutines a1 and a2 share one FileSerialProvider of process A; b1 runs in
\* process B with a provider of its own on the same counter file
Threads == {"a1", "a2", "b1"}

Procs == {"A", "B"}

ProcOf(t) == IF t = "b1" THEN "B" ELSE "A"

\* no pair: a nil *X509Pair
NoPair == [cn |-> "", serial |-> <<>>, cert |-> [kind |-> "nil"], key |-> [kind |-> "nil"]]

Absent == [exists |-> FALSE, data |-> <<>>]

File(text) == [exists |-> TRUE, data |-> text]

\* nothing observed yet
NotSeen == [op |-> "none"]

\* a thread outside DirKeyStorage: pc, the pair it puts, the certificate
\* bytes its lookup has read, whether a Put had returned when the lookup
\* began, whether one of its Puts returned an error
StorageIdle ==
    [pc |-> "idle", pair |-> NoPair, cert |-> [kind |-> "nil"], after |-> FALSE,
     failed |-> FALSE]

\* no file at the path
NoFile == [exists |-> FALSE, data |-> [kind |-> "nil"]]

\* the keydir after InitPKI, but for the CRL file
InitRest ==
    /\ serialFile \in {Absent, File(<<>>)}
    /\ slock = [p \in Procs |-> FALSE]
    /\ sflock = [p \in Procs |-> "un"]
    /\ npc = [t \in Threads |-> "idle"]
    /\ nBytes = [t \in Threads |-> <<>>]
    /\ nRes = [t \in Threads |-> <<>>]
    /\ nCalls = [t \in Threads |-> 0]
    /\ returned = <<>>
    /\ dirs = {}
    /\ files = {}
    /\ lastPut = NoPair
    /\ nPuts = 0
    /\ issued = <<>>
    /\ nOps = 0
    /\ revCalled = {}
    /\ revDone = {}
    /\ revOrder = <<>>
    /\ rpc = [p \in Procs |-> "idle"]
    /\ rSerial = [p \in Procs |-> <<>>]
    /\ rPem = [p \in Procs |-> [kind |-> "nil"]]
    /\ crlLock = [p \in Procs |-> "un"]
    /\ crlFlag = [p \in Procs |-> [l |-> FALSE, r |-> FALSE]]
    /\ hpc = [t \in Threads |-> "idle"]
    /\ spc = [t \in Threads |-> StorageIdle]
    /\ seen = NotSeen

\* the keydir after InitPKI: no CRL file yet
Init == InitRest /\ crlFile = NoFile

(***************************************************************************)
(* github.com/gofrs/flock as FileSerialProvider and FileCRLHolder use it   *)
(***************************************************************************)
\* flock(2) grants LOCK_EX to the descriptor of process p when no descriptor
\* of another process holds the lock in any mode
CanLockEx(modes, p) == \A q \in DOMAIN modes \ {p} : modes[q] = "un"

\* flock(2) grants LOCK_SH when no other descriptor holds LOCK_EX
CanLockSh(modes, p) == \A q \in DOMAIN modes \ {p} : modes[q] # "ex"

\* Flock.TryLock: a Flock whose flag l is already set answers true without
\* asking the kernel; otherwise LOCK_EX|LOCK_NB decides
TryLockGranted(flags, modes, p) == flags[p] \/ CanLockEx(modes, p)

\* writeFileAtomic: temp file in the same directory, rename over the target;
\* the target changes at the rename or not at all
writeFileAtomic(old, text, ok) == IF ok THEN File(text) ELSE old

(***************************************************************************)
(* FileSerialProvider.Next, one step per system call                       *)
(***************************************************************************)
\* a thread calls Next()
NextCall(t) ==
    /\ npc[t] = "idle"
    /\ nCalls[t] < MaxCalls
    /\ npc' = [npc EXCEPT ![t] = "lock"]
    /\ nCalls' = [nCalls EXCEPT ![t] = @ + 1]
    /\ UNCHANGED <<serialFile, slock, sflock, nBytes, nRes, returned, outsideSerial>>

\* p.locker.TryLockContext(ctx, LockPeriod) returns true
NextLock(t) ==
    LET p == ProcOf(t) IN
    /\ npc[t] = "lock"
    /\ TryLockGranted(slock, sflock, p)
    /\ slock' = [slock EXCEPT ![p] = TRUE]
    /\ sflock' = [sflock EXCEPT ![p] = "ex"]
    /\ npc' = [npc EXCEPT ![t] = "read"]
    /\ UNCHANGED <<serialFile, nBytes, nRes, nCalls, returned, outsideSerial>>

\* the lock stayed unavailable until LockTimeout: Next() returns an error
NextLockTimeout(t) ==
    /\ npc[t] = "lock"
    /\ ~TryLockGranted(slock, sflock, ProcOf(t))
    /\ npc' = [npc EXCEPT ![t] = "idle"]
    /\ UNCHANGED <<serialFile, slock, sflock, nBytes, nRes, nCalls, returned, outsideSerial>>

\* ioutil.ReadFile(p.path); a missing file leaves sBytes empty
NextRead(t) ==
    /\ npc[t] = "read"
    /\ nBytes' = [nBytes EXCEPT ![t] = IF serialFile.exists THEN serialFile.data ELSE <<>>]
    /\ npc' = [npc EXCEPT ![t] = "write"]
    /\ UNCHANGED <<serialFile, slock, sflock, nRes, nCalls, returned, outsideSerial>>

\* the stored value handed back without the increment
NextValue_NoIncrement(sBytes) == IF Len(sBytes) # 0 THEN SetString16(sBytes) ELSE <<>>

\* the value Next() computes from what it read
NextValue(sBytes) == Add1(IF Len(sBytes) # 0 THEN SetString16(sBytes) ELSE <<>>)

\* res.SetString, res.Add and writeFileAtomic(p.path, res.Text(16))
NextWrite(t, ok) ==
    /\ npc[t] = "write"
    /\ nRes' = [nRes EXCEPT ![t] = NextValue(nBytes[t])]
    /\ serialFile' = writeFileAtomic(serialFile, Text16(NextValue(nBytes[t])), ok)
    /\ npc' = [npc EXCEPT ![t] = IF ok THEN "unlock_ok" ELSE "unlock_err"]
    /\ UNCHANGED <<slock, sflock, nBytes, nCalls, returned, outsideSerial>>

\* the deferred p.locker.Unlock(), then the return
NextReturn(t) ==
    LET p == ProcOf(t) IN
    /\ npc[t] \in {"unlock_ok", "unlock_err"}
    /\ slock' = [slock EXCEPT ![p] = FALSE]
    /\ sflock' = [sflock EXCEPT ![p] = "un"]
    /\ returned' = IF npc[t] = "unlock_ok" THEN Append(returned, nRes[t]) ELSE returned
    /\ npc' = [npc EXCEPT ![t] = "idle"]
    /\ UNCHANGED <<serialFile, nBytes, nRes, nCalls, outsideSerial>>

NextSerial ==
    \E t \in Threads :
        \/ NextCall(t)
        \/ NextLock(t)
        \/ NextLockTimeout(t)
        \/ NextRead(t)
        \/ \E ok \in BOOLEAN : NextWrite(t, ok)
        \/ NextReturn(t)

SpecSerial == Init /\ [][NextSerial]_vars

\* C1: the values returned by successful Next() calls on one counter file,
\* issued by different processes or by threads sharing one provider, are
\* strictly increasing in order of return (so pairwise distinct), and the
\* first call on an absent or empty counter file returns 1.
C1_StrictlyIncreasing ==
    /\ \A i \in 1..Len(returned) : \A j \in 1..Len(returned) :
           i < j => Cmp(returned[i], returned[j]) = -1
    /\ \A t \in Threads :
           npc[t] = "unlock_ok" /\ nBytes[t] = <<>> => nRes[t] = <<1>>

(***************************************************************************)
(* DirKeyStorage (internal/fsStorage)                                      *)
(***************************************************************************)
\* ".crt" (CertFileExtension) and ".key" as text
CertExt == <<46, 99, 114, 116>>

KeyExt == <<46, 107, 101, 121>>

\* the base name of a stored file, extension included
FileName(f) == f.name \o (IF f.ext = "crt" THEN CertExt ELSE KeyExt)

\* the common names the model stores under, in the lexical order in which
\* filepath.Walk visits their directories
CnOrder == <<"alice", "ca">>

\* pair.ImportX509 / pair.NewX509Pair
X509Pair(key, cert, cn, serial) == [cn |-> cn, serial |-> serial, cert |-> cert, key |-> key]

\* the file a write leaves at <keydir>/<cn>/<name>.<ext>, with its
\* permission bits (in octal)
WriteFile(fs, cn, name, ext, data, mode) ==
    {f \in fs : ~(f.cn = cn /\ f.name = name /\ f.ext = ext)}
        \cup {[cn |-> cn, name |-> name, ext |-> ext, data |-> data, mode |-> mode]}

\* DirKeyStorage.Put with makePath.  outcome names how far the call gets:
\* "mkdir" (MkdirAll fails), "cert" (the cert write fails), "key" (the key
\* write fails after the cert was renamed into place) or "ok".
\* The result is the storage afterwards and the error flag.
Put(d, fs, pair, outcome) ==
    LET name == Text16(pair.serial) IN
    IF pair.cn = "" \/ outcome = "mkdir"
    THEN [dirs |-> d, files |-> fs, err |-> TRUE]
    ELSE IF outcome = "cert"
    THEN [dirs |-> d \cup {pair.cn}, files |-> fs, err |-> TRUE]
    ELSE IF outcome = "key"
    THEN [dirs |-> d \cup {pair.cn},
          files |-> WriteFile(fs, pair.cn, name, "crt", pair.cert, "0644"), err |-> TRUE]
    ELSE [dirs |-> d \cup {pair.cn},
          files |-> WriteFile(WriteFile(fs, pair.cn, name, "crt", pair.cert, "0644"),
                              pair.cn, name, "key", pair.key, "0644"),
          err |-> FALSE]

RECURSIVE WalkOrder(_)
\* the files of one directory in the order filepath.Walk visits them
WalkOrder(S) ==
    IF S = {} THEN <<>>
    ELSE LET f == CHOOSE f \in S : \A g \in S \ {f} : LexLess(FileName(f), FileName(g))
         IN  <<f>> \o WalkOrder(S \ {f})

RECURSIVE WalkDirs(_, _)
\* the files under the directories named by the sequence cns, in walk order
WalkDirs(fs, cns) ==
    IF cns = <<>> THEN <<>>
    ELSE WalkOrder({f \in fs : f.cn = cns[1]}) \o WalkDirs(fs, Tail(cns))

\* the .key sibling of a .crt file can be read
HasKey(fs, f) == \E k \in fs : k.cn = f.cn /\ k.name = f.name /\ k.ext = "key"

KeyOf(fs, f) == (CHOOSE k \in fs : k.cn = f.cn /\ k.name = f.name /\ k.ext = "key").data

\* the walk callback of GetByCN / GetBySerial / GetAll keeps a file when it
\* ends in .crt, its base name parses as a 64-bit hex integer and its .key
\* sibling can be read
Loadable(fs, f) == f.ext = "crt" /\ ParseInt(f.name).ok /\ HasKey(fs, f)

\* the pair the callback builds, under the common name cn
Loaded(fs, f, cn) == X509Pair(KeyOf(fs, f), f.data, cn, ParseInt(f.name).val)

RECURSIVE LoadAll(_, _, _)
LoadAll(fs, walk, cn) ==
    IF walk = <<>> THEN <<>>
    ELSE (IF Loadable(fs, walk[1]) THEN <<Loaded(fs, walk[1], cn)>> ELSE <<>>)
             \o LoadAll(fs, Tail(walk), cn)

\* DirKeyStorage.GetByCN: [err, pairs].  filepath.Join(keydir, "") is the
\* keydir itself, so an empty cn walks every directory
GetByCN(fs, cn) ==
    LET walk == IF cn = "" THEN WalkDirs(fs, CnOrder)
                ELSE WalkOrder({f \in fs : f.cn = cn})
        res == LoadAll(fs, walk, cn)
    IN  IF Len(res) = 0 THEN [err |-> TRUE, pairs |-> <<>>]
        ELSE [err |-> FALSE, pairs |-> res]

RECURSIVE SortDesc(_)
\* sort.Slice(pairs, less) with less(i, j) = pairs[i].Serial().Cmp(pairs[j].Serial()) == 1
SortDesc(pairs) ==
    IF pairs = <<>> THEN <<>>
    ELSE LET i == CHOOSE i \in 1..Len(pairs) :
                      \A j \in 1..Len(pairs) : Cmp(pairs[j].serial, pairs[i].serial) # 1
             rest == [k \in 1..(Len(pairs) - 1) |-> IF k < i THEN pairs[k] ELSE pairs[k + 1]]
         IN  <<pairs[i]>> \o SortDesc(rest)

\* DirKeyStorage.GetLastByCn: [err, pair]
GetLastByCn(fs, cn) ==
    LET got == GetByCN(fs, cn)
    IN  IF got.err \/ Len(got.pairs) = 0 THEN [err |-> TRUE, pair |-> NoPair]
        ELSE [err |-> FALSE, pair |-> SortDesc(got.pairs)[1]]

\* DirKeyStorage.GetBySerial: the walk of the whole keydir goes on after a
\* match, so res holds the last matching file: [err, pair]
GetBySerial(fs, serial) ==
    LET walk == WalkDirs(fs, CnOrder)
        hit(f) == /\ f.ext = "crt"
                  /\ ParseInt(f.name).ok
                  /\ Text16(serial) = Text16(ParseInt(f.name).val)
                  /\ HasKey(fs, f)
        hits == SelectSeq(walk, hit)
    IN  IF hits = <<>> THEN [err |-> TRUE, pair |-> NoPair]
        ELSE [err |-> FALSE, pair |-> Loaded(fs, Last(hits), Last(hits).cn)]

(***************************************************************************)
(* Direct use of the storage                                               *)
(***************************************************************************)
\* 2^63, the least serial that does not fit in a signed 64-bit integer
TwoTo63 == <<HexBase \div 2>> \o [i \in 1..(WordDigits - 1) |-> 0]

\* serials of the pairs put directly: 2, 16 (file name "10", walked before "2")
\* and 2^63
PutSerials == {<<2>>, <<1, 0>>, TwoTo63}

\* certificate and key contents of the pairs put directly
PutContents == {[kind |-> "raw", id |-> 1], [kind |-> "raw", id |-> 2]}

PutPairs ==
    {X509Pair(c, c, cn, s) : c \in PutContents, cn \in {"alice", "ca"}, s \in PutSerials}

\* a caller puts a pair into the storage
StoragePut(pair, outcome) ==
    LET r == Put(dirs, files, pair, outcome) IN
    /\ nPuts < MaxPuts
    /\ nPuts' = nPuts + 1
    /\ dirs' = r.dirs
    /\ files' = r.files
    /\ lastPut' = IF r.err THEN NoPair ELSE pair
    /\ UNCHANGED <<serialFile, callerVars, pkiVars, crlVars>>

NextStorage ==
    \E pair \in PutPairs : \E outcome \in {"ok", "mkdir", "cert", "key"} :
        StoragePut(pair, outcome)

SpecStorage == Init /\ [][NextStorage]_vars

InSeq(x, seq) == \E i \in 1..Len(seq) : seq[i] = x

\* C6: after DirKeyStorage.Put(p) succeeds, GetByCN(p.cn) contains a pair
\* equal to p and GetBySerial(p.serial) returns a pair equal to p (also when
\* the Put replaced an earlier pair of the same cn and serial).
C6_LookupAfterPut ==
    lastPut # NoPair =>
        /\ InSeq(lastPut, GetByCN(files, lastPut.cn).pairs)
        /\ GetBySerial(files, lastPut.serial) = [err |-> FALSE, pair |-> lastPut]

\* C6 restricted to serials below 2^63 that no other common name holds
C6_LookupAfterPut_Fits ==
    (/\ lastPut # NoPair
     /\ FitsInt64(lastPut.serial)
     /\ \A f \in files : f.name = Text16(lastPut.serial) => f.cn = lastPut.cn) =>
        /\ InSeq(lastPut, GetByCN(files, lastPut.cn).pairs)
        /\ GetBySerial(files, lastPut.serial) = [err |-> FALSE, pair |-> lastPut]

\* the certificate files under cn that have a key file beside them
StoredPairs(fs, cn) == {f \in fs : f.cn = cn /\ f.ext = "crt" /\ HasKey(fs, f)}

\* C7: GetLastCA returns the stored CA pair whose serial is the numeric
\* maximum among all stored pairs with CN "ca", however many are stored and
\* in whatever order the walk meets them.
C7_LastCaIsMax ==
    StoredPairs(files, "ca") # {} =>
        LET r == GetLastByCn(files, "ca") IN
        /\ ~r.err
        /\ \E f \in StoredPairs(files, "ca") :
               /\ SetString16(f.name) = r.pair.serial
               /\ r.pair = X509Pair(KeyOf(files, f), f.data, "ca", r.pair.serial)
        /\ \A f \in StoredPairs(files, "ca") : Cmp(SetString16(f.name), r.pair.serial) # 1

(***************************************************************************)
(* Package easyrsa (storage.go, pki.go): the storage without NotExist on   *)
(* an empty result, and PKI.GetLastCert on top of it                       *)
(***************************************************************************)
\* what a failed ioutil.WriteFile leaves of a file it had opened
Truncated == [kind |-> "trunc"]

\* ioutil.WriteFile(path, data, perm): perm is the mode of a file it
\* creates, a file that exists keeps its mode
IoWriteFile(fs, cn, name, ext, data, perm) ==
    LET old == {f \in fs : f.cn = cn /\ f.name = name /\ f.ext = ext}
    IN  WriteFile(fs, cn, name, ext, data,
                  IF old = {} THEN perm ELSE (CHOOSE f \in old : TRUE).mode)

\* DirKeyStorage.Put of package easyrsa: makePath, then ioutil.WriteFile for
\* the certificate and for the key.  outcome: "mkdir", "cert" (the
\* certificate file cannot be opened), "certw" (its write fails part-way),
\* "key", "keyw" (the same for the key file) or "ok".
RootPut(d, fs, pair, outcome) ==
    LET name == Text16(pair.serial)
        withCrt == IoWriteFile(fs, pair.cn, name, "crt", pair.cert, "0644")
    IN
    CASE pair.cn = "" \/ outcome = "mkdir" ->
             [dirs |-> d, files |-> fs, err |-> TRUE]
      [] outcome = "cert" ->
             [dirs |-> d \cup {pair.cn}, files |-> fs, err |-> TRUE]
      [] outcome = "certw" ->
             [dirs |-> d \cup {pair.cn},
              files |-> IoWriteFile(fs, pair.cn, name, "crt", Truncated, "0644"), err |-> TRUE]
      [] outcome = "key" ->
             [dirs |-> d \cup {pair.cn}, files |-> withCrt, err |-> TRUE]
      [] outcome = "keyw" ->
             [dirs |-> d \cup {pair.cn},
              files |-> IoWriteFile(withCrt, pair.cn, name, "key", Truncated, "0600"), err |-> TRUE]
      [] OTHER ->
             [dirs |-> d \cup {pair.cn},
              files |-> IoWriteFile(withCrt, pair.cn, name, "key", pair.key, "0600"), err |-> FALSE]

\* DirKeyStorage.GetByCN of package easyrsa: the error is the walk's, which
\* fails only when <keydir>/<cn> does not exist: [err, pairs]
RootGetByCN(d, fs, cn) ==
    IF cn \notin d THEN [err |-> TRUE, pairs |-> <<>>]
    ELSE [err |-> FALSE, pairs |-> LoadAll(fs, WalkOrder({f \in fs : f.cn = cn}), cn)]

\* PKI.GetLastCert of package easyrsa; pairs[0] of an empty slice panics:
\* [err, panic, pair]
RootGetLastCert(d, fs, cn) ==
    LET got == RootGetByCN(d, fs, cn) IN
    IF got.err THEN [err |-> TRUE, panic |-> FALSE, pair |-> NoPair]
    ELSE IF Len(got.pairs) = 0 THEN [err |-> FALSE, panic |-> TRUE, pair |-> NoPair]
    ELSE [err |-> FALSE, panic |-> FALSE, pair |-> SortDesc(got.pairs)[1]]

\* PKI.GetLastCA of package easyrsa
RootGetLastCA(d, fs) == RootGetLastCert(d, fs, "ca")

\* a caller puts a pair into the storage of package easyrsa
RootStoragePut(pair, outcome) ==
    LET r == RootPut(dirs, files, pair, outcome) IN
    /\ nPuts < MaxPuts
    /\ nPuts' = nPuts + 1
    /\ dirs' = r.dirs
    /\ files' = r.files
    /\ lastPut' = IF r.err THEN NoPair ELSE pair
    /\ UNCHANGED <<serialFile, callerVars, pkiVars, crlVars>>

NextRoot ==
    \E pair \in PutPairs : \E outcome \in {"ok", "mkdir", "cert", "certw", "key", "keyw"} :
        RootStoragePut(pair, outcome)

SpecRoot == Init /\ [][NextRoot]_vars

\* a certificate file and a key file of the same name, both written in full
HasValidPair(fs, cn) ==
    \E f \in StoredPairs(fs, cn) : f.data # Truncated /\ KeyOf(fs, f) # Truncated

\* C8: GetLastCA on a PKI that holds no valid CA pair (no ca directory, or a
\* ca directory without a valid cert/key pair) returns a NotFound error and
\* a nil pair; it never panics and never returns a pair.
C8_NotFoundWithoutCa ==
    ~HasValidPair(files, "ca") =>
        /\ GetLastByCn(files, "ca") = [err |-> TRUE, pair |-> NoPair]
        /\ RootGetLastCA(dirs, files) = [err |-> TRUE, panic |-> FALSE, pair |-> NoPair]

(***************************************************************************)
(* encoding/pem and crypto/x509 as the PKI uses them                       *)
(***************************************************************************)
PEMCertificateBlock == "CERTIFICATE"

PEMRSAPrivateKeyBlock == "RSA PRIVATE KEY"

\* pem.EncodeToMemory(&pem.Block{Type: type, Bytes: der})
PemEncode(type, der) == [kind |-> "pem", type |-> type, der |-> der]

\* pem.Decode: the first block of the bytes, nil when they hold none
PemDecode(bytes) ==
    IF bytes.kind = "pem" THEN [ok |-> TRUE, der |-> bytes.der]
    ELSE [ok |-> FALSE, der |-> [kind |-> "nil"]]

\* X509Pair.Decode: [err, key, cert]
Decode(pair) ==
    LET kb == PemDecode(pair.key)
        cb == PemDecode(pair.cert)
    IN  IF ~kb.ok \/ kb.der.kind # "rsa" \/ ~cb.ok \/ cb.der.kind # "cert"
        THEN [err |-> TRUE, key |-> [kind |-> "nil"], cert |-> [kind |-> "nil"]]
        ELSE [err |-> FALSE, key |-> kb.der, cert |-> cb.der]

\* rsa.GenerateKey; the n-th call on the PKI generates key n
GenerateKey(n) == [kind |-> "rsa", id |-> n]

\* x509.CreateCertificate(rand, template, parent, pub, priv): the DER of the
\* template's fields, issued by the parent's subject, signed with priv
CreateCertificate(template, parent, pub, priv) ==
    [kind |-> "cert", sn |-> template.sn, subject |-> template.subject,
     issuer |-> parent.subject, isCA |-> template.isCA,
     keyUsage |-> template.keyUsage, extKeyUsage |-> template.extKeyUsage,
     extra |-> template.extra, pub |-> pub.id, signedBy |-> priv.id]

(***************************************************************************)
(* pkg/pki options: an Option is a function changing the template          *)
(***************************************************************************)
CN(cn) == [op |-> "CN", arg |-> cn]

Server == [op |-> "Server", arg |-> ""]

\* one option applied to the template
Option(option, certificate) ==
    IF option.op = "CN" THEN [certificate EXCEPT !.subject = option.arg]
    ELSE [certificate EXCEPT
              !.keyUsage = {"DigitalSignature", "KeyAgreement", "KeyEncipherment"},
              !.extKeyUsage = <<"ServerAuth">>,
              !.extra = Append(@, "nsCertType:server")]

RECURSIVE Apply(_, _)
\* Apply: the options in order, each on the result of the one before
Apply(options, cert) ==
    IF options = <<>> THEN cert
    ELSE Apply(Tail(options), Option(options[1], cert))

(***************************************************************************)
(* PKI (pkg/pki) with the file collaborators of InitPKI, single caller     *)
(***************************************************************************)
\* FileSerialProvider.Next run to its end by the only caller; ok is whether
\* the lock is obtained and the counter file written: [file, err, val]
SerialNext(sf, ok) ==
    LET res == NextValue(IF sf.exists THEN sf.data ELSE <<>>)
    IN  [file |-> writeFileAtomic(sf, Text16(res), ok), err |-> ~ok, val |-> res]

\* PKI.NewCa.  outcome: "keygen" (rsa.GenerateKey fails), "next" (Next()
\* fails), "mkdir", "cert", "key" (Storage.Put fails there) or "ok"
NewCa(opts, outcome) ==
    LET key == GenerateKey(nOps + 1)
        nx == SerialNext(serialFile, outcome # "next")
        template == Apply(opts, [sn |-> nx.val, subject |-> "ca", isCA |-> TRUE,
                                 keyUsage |-> {"DigitalSignature", "CertSign", "CRLSign"},
                                 extKeyUsage |-> <<>>, extra |-> <<>>])
        certificate == CreateCertificate(template, template, key, key)
        res == X509Pair(PemEncode(PEMRSAPrivateKeyBlock, key),
                        PemEncode(PEMCertificateBlock, certificate), "ca", nx.val)
        put == Put(dirs, files, res, outcome)
    IN
    /\ nOps' = nOps + 1
    /\ UNCHANGED <<callerVars, putVars, crlVars>>
    /\ IF outcome = "keygen"
       THEN UNCHANGED <<serialFile, storeVars, issued>>
       ELSE IF nx.err
       THEN serialFile' = nx.file /\ UNCHANGED <<storeVars, issued>>
       ELSE /\ serialFile' = nx.file
            /\ dirs' = put.dirs
            /\ files' = put.files
            /\ issued' = IF put.err THEN issued ELSE Append(issued, res)

\* PKI.GetLastCA
GetLastCA(fs) == GetLastByCn(fs, "ca")

\* NewCert that takes the serial before it looks for the CA pair
NewCert_SerialFirst(cn, opts, outcome) ==
    LET ca == GetLastCA(files)
        dec == Decode(ca.pair)
        key == GenerateKey(nOps + 1)
        nx == SerialNext(serialFile, outcome # "next")
        tmpl == Apply(opts, [sn |-> nx.val, subject |-> cn, isCA |-> FALSE,
                             keyUsage |-> {"DigitalSignature", "KeyAgreement"},
                             extKeyUsage |-> <<"ClientAuth">>,
                             extra |-> <<"nsCertType:client">>])
        cert == CreateCertificate(tmpl, dec.cert, key, dec.key)
        res == X509Pair(PemEncode(PEMRSAPrivateKeyBlock, key),
                        PemEncode(PEMCertificateBlock, cert), cn, nx.val)
        put == Put(dirs, files, res, outcome)
    IN
    /\ nOps' = nOps + 1
    /\ UNCHANGED <<callerVars, putVars, crlVars>>
    /\ IF outcome = "keygen"
       THEN UNCHANGED <<serialFile, storeVars, issued>>
       ELSE IF nx.err \/ ca.err \/ dec.err
       THEN serialFile' = nx.file /\ UNCHANGED <<storeVars, issued>>
       ELSE /\ serialFile' = nx.file
            /\ dirs' = put.dirs
            /\ files' = put.files
            /\ issued' = IF put.err THEN issued ELSE Append(issued, res)

\* PKI.NewCert, signed by the last CA; outcomes as for NewCa
NewCert(cn, opts, outcome) ==
    LET ca == GetLastCA(files)
        dec == Decode(ca.pair)
        key == GenerateKey(nOps + 1)
        nx == SerialNext(serialFile, outcome # "next")
        tmpl == Apply(opts, [sn |-> nx.val, subject |-> cn, isCA |-> FALSE,
                             keyUsage |-> {"DigitalSignature", "KeyAgreement"},
                             extKeyUsage |-> <<"ClientAuth">>,
                             extra |-> <<"nsCertType:client">>])
        cert == CreateCertificate(tmpl, dec.cert, key, dec.key)
        res == X509Pair(PemEncode(PEMRSAPrivateKeyBlock, key),
                        PemEncode(PEMCertificateBlock, cert), cn, nx.val)
        put == Put(dirs, files, res, outcome)
    IN
    /\ nOps' = nOps + 1
    /\ UNCHANGED <<callerVars, putVars, crlVars>>
    /\ IF ca.err \/ dec.err \/ outcome = "keygen"
       THEN UNCHANGED <<serialFile, storeVars, issued>>
       ELSE IF nx.err
       THEN serialFile' = nx.file /\ UNCHANGED <<storeVars, issued>>
       ELSE /\ serialFile' = nx.file
            /\ dirs' = put.dirs
            /\ files' = put.files
            /\ issued' = IF put.err THEN issued ELSE Append(issued, res)

\* the option lists and common names the callers pass
OptLists == {<<>>, <<CN("bob")>>, <<Server>>}

CertNames == {"alice", "ca", ""}

Outcomes == {"ok", "keygen", "next", "mkdir", "cert", "key"}

NextPki ==
    /\ nOps < MaxOps
    /\ \E opts \in OptLists : \E outcome \in Outcomes :
           \/ NewCa(opts, outcome)
           \/ \E cn \in CertNames : NewCert(cn, opts, outcome)

SpecPki == Init /\ [][NextPki]_vars

\* C2: within one PKI no two successful NewCa / NewCert calls return the
\* same serial, in any sequence of calls, also when other issuance calls
\* failed part-way after their serial was allocated.
C2_DistinctSerials ==
    \A i \in 1..Len(issued) : \A j \in 1..Len(issued) :
        i # j => issued[i].serial # issued[j].serial

\* two issuances succeeded and one between them failed after it took serial 2
C2_Witness ==
    /\ Len(issued) >= 2
    /\ issued[1].serial = <<1>>
    /\ issued[2].serial = <<3>>

\* C9: for every pair NewCa or NewCert returned, whatever options were
\* passed, the decoded certificate's SerialNumber equals the pair's serial
\* and its Subject.CommonName equals the pair's CN.
C9_DecodedMatchesPair ==
    \A i \in 1..Len(issued) :
        LET d == Decode(issued[i]) IN
        /\ ~d.err
        /\ d.cert.sn = issued[i].serial
        /\ d.cert.subject = issued[i].cn

(***************************************************************************)
(* Issuance on a fresh keydir when no call fails                           *)
(***************************************************************************)
NumCa == Cardinality({i \in 1..Len(issued) : issued[i].cn = "ca"})

NextFresh ==
    /\ nOps < MaxFresh
    /\ \/ NumCa < MaxFreshCa /\ NewCa(<<>>, "ok")
       \/ issued # <<>> /\ NewCert("alice", <<>>, "ok")

SpecFresh == Init /\ [][NextFresh]_vars

\* C10: on a fresh keydir, when no call fails, the k-th issuance (NewCa
\* first, then NewCa or NewCert in any order) returns serial k, and the
\* counter file holds exactly the value returned last.
C10_KthSerialIsK ==
    /\ \A k \in 1..Len(issued) : issued[k].serial = FromNat(k)
    /\ issued # <<>> => serialFile = File(Text16(FromNat(Len(issued))))

\* the 17th issuance has returned serial 0x11
C10_Witness ==
    /\ Len(issued) = 17
    /\ issued[17].serial = <<1, 1>>
    /\ serialFile.data = <<49, 49>>

(***************************************************************************)
(* Revocation, pkg/pki: FileCRLHolder, RevokeOne, IsRevoked, removeDups    *)
(***************************************************************************)
PEMx509CRLBlock == "X509 CRL"

\* x509.ParseCRL: the revoked certificates of a PEM or DER encoded list:
\* [err, list]
ParseCRL(bytes) ==
    IF bytes.kind = "pem" /\ bytes.type = PEMx509CRLBlock /\ bytes.der.kind = "crl"
    THEN [err |-> FALSE, list |-> bytes.der.entries]
    ELSE [err |-> TRUE, list |-> <<>>]

\* FileCRLHolder.Get that parses whatever file os.Stat finds
CrlGet_StatOnly(crl) ==
    IF ~crl.exists THEN [err |-> FALSE, list |-> <<>>]
    ELSE ParseCRL(crl.data)

\* FileCRLHolder.Get once it holds the shared lock: a missing file and a
\* file of size 0 are an empty list: [err, list]
CrlGet(crl) ==
    IF ~crl.exists \/ crl.data.kind = "empty" THEN [err |-> FALSE, list |-> <<>>]
    ELSE ParseCRL(crl.data)

\* caCert.CreateCRL(rand, caKey, list, now, expiry)
CreateCRL(caCert, caKey, list, now) ==
    [kind |-> "crl", issuer |-> caCert.subject, signedBy |-> caKey.id,
     entries |-> list, thisUpdate |-> now]

RECURSIVE removeDupsFrom(_, _)
\* the loop of removeDups: encountered holds the Int64() keys seen so far
removeDupsFrom(list, encountered) ==
    IF list = <<>> THEN <<>>
    ELSE IF Int64(list[1].sn) \in encountered
         THEN removeDupsFrom(Tail(list), encountered)
         ELSE <<list[1]>> \o removeDupsFrom(Tail(list), encountered \cup {Int64(list[1].sn)})

\* removeDups that returns the list as it is
removeDups_None(list) == list

\* removeDups: the first entry of every Int64() key stays, in list order
removeDups(list) == removeDupsFrom(list, {})

\* PKI.IsRevoked that takes every serial for revoked when the CRL cannot be
\* read
IsRevoked_FailClosed(crl, serial) ==
    LET got == CrlGet(crl)
    IN  got.err \/ \E i \in 1..Len(got.list) : Cmp(got.list[i].sn, serial) = 0

\* PKI.IsRevoked: a CRL that cannot be read counts as empty
IsRevoked(crl, serial) ==
    LET got == CrlGet(crl)
        revokedCerts == IF got.err THEN <<>> ELSE got.list
    IN  \E i \in 1..Len(revokedCerts) : Cmp(revokedCerts[i].sn, serial) = 0

\* what a call of RevokeOne with the serial adds to the record of calls
Called(serial) == revCalled \cup {serial}

\* the record of a RevokeOne that returned success
Done(serial) ==
    /\ revDone' = revDone \cup {serial}
    /\ revOrder' = IF serial \in revDone THEN revOrder ELSE Append(revOrder, serial)

\* the body of PKI.RevokeOne on the crl file and the stored files it finds:
\* [err, crl].  outcome: "put" (crlHolder.Put fails: lock not obtained or
\* the write fails) or "ok"
RevokeOneOn(crl, fs, serial, now, outcome) ==
    LET old == CrlGet(crl)
        list == IF old.err THEN <<>> ELSE old.list
        ca == GetByCN(fs, "ca")
        caPairs == SortDesc(ca.pairs)
        dec == Decode(caPairs[1])
        added == Append(list, [sn |-> serial, time |-> now])
        crlBytes == CreateCRL(dec.cert, dec.key, removeDups(added), now)
        crlPem == PemEncode(PEMx509CRLBlock, crlBytes)
    IN  IF ca.err \/ dec.err \/ outcome = "put"
        THEN [err |-> TRUE, crl |-> crl]
        ELSE [err |-> FALSE, crl |-> writeFileAtomic(crl, crlPem, TRUE)]

\* PKI.RevokeOne by a single caller
RevokeOne(serial, outcome) ==
    LET r == RevokeOneOn(crlFile, files, serial, nOps + 1, outcome)
    IN
    /\ nOps' = nOps + 1
    /\ revCalled' = Called(serial)
    /\ UNCHANGED <<serialFile, callerVars, storeVars, putVars, issued>>
    /\ IF r.err
       THEN UNCHANGED <<crlFile, revDone, revOrder>>
       ELSE crlFile' = r.crl /\ Done(serial)

\* 2^64 + 1: equal to 1 in its low 64 bits
TwoTo64Plus1 == <<1>> \o [i \in 1..(WordDigits - 1) |-> 0] \o <<1>>

\* the serials the callers revoke
RevSerials == {<<1>>, <<2>>, TwoTo64Plus1}

NextRevoke ==
    /\ nOps < MaxRevOps
    /\ \/ NewCa(<<>>, "ok")
       \/ \E serial \in RevSerials : \E outcome \in {"ok", "put"} : RevokeOne(serial, outcome)

SpecRevoke == Init /\ [][NextRevoke]_vars

\* C3: for a single caller, after RevokeOne(s) has returned success
\* IsRevoked(s) is true, and IsRevoked(t) is false for every serial t that
\* RevokeOne was never called with.
C3_RevokedIffRevoked ==
    /\ \A s \in revDone : IsRevoked(crlFile, s)
    /\ \A t \in RevSerials \ revCalled : ~IsRevoked(crlFile, t)

(***************************************************************************)
(* Revocation at HEAD (pkg/pki over x509.RevocationList): GetCRL starts a  *)
(* new list when the holder has none, RevokeOne appends to the old list    *)
(***************************************************************************)
\* pair.NewX509Pair(key, cert): the pair takes its CN and serial from the
\* certificate
NewX509Pair(key, cert) ==
    X509Pair(PemEncode(PEMRSAPrivateKeyBlock, key), PemEncode(PEMCertificateBlock, cert),
             cert.subject, cert.sn)

\* PKI.NewCa(0, opts...): NewCert(0, true, CA(), CN("ca"), opts...),
\* createCert included; the caller's options (CN options here) are applied
\* after CA() and CN("ca"); outcomes as for NewCa of the earlier PKI
HeadNewCaWith(opts, outcome) ==
    LET certKey == GenerateKey(nOps + 1)
        nx == SerialNext(serialFile, outcome # "next")
        template == Apply(opts, [sn |-> nx.val, subject |-> "ca", isCA |-> TRUE,
                                 keyUsage |-> {"CertSign", "CRLSign"},
                                 extKeyUsage |-> <<>>, extra |-> <<>>])
        cert == CreateCertificate(template, template, certKey, certKey)
        res == NewX509Pair(certKey, cert)
        put == Put(dirs, files, res, outcome)
    IN
    /\ nOps' = nOps + 1
    /\ UNCHANGED <<callerVars, putVars, crlVars>>
    /\ IF outcome = "keygen"
       THEN UNCHANGED <<serialFile, storeVars, issued>>
       ELSE IF nx.err
       THEN serialFile' = nx.file /\ UNCHANGED <<storeVars, issued>>
       ELSE /\ serialFile' = nx.file
            /\ dirs' = put.dirs
            /\ files' = put.files
            /\ issued' = IF put.err THEN issued ELSE Append(issued, res)

\* PKI.NewCa(0) without further options
HeadNewCa(outcome) == HeadNewCaWith(<<>>, outcome)

\* crlHolder.Get of the fsStorage package at HEAD, as PKI.GetCRL uses it: a
\* missing file is the error ErrorCrlNotExist, any other content is parsed:
\* [err, notExist, list, thisUpdate]
HeadCrlGet(crl) ==
    IF ~crl.exists
    THEN [err |-> TRUE, notExist |-> TRUE, list |-> <<>>, thisUpdate |-> 0]
    ELSE IF ParseCRL(crl.data).err
    THEN [err |-> TRUE, notExist |-> FALSE, list |-> <<>>, thisUpdate |-> 0]
    ELSE [err |-> FALSE, notExist |-> FALSE, list |-> crl.data.der.entries,
          thisUpdate |-> crl.data.der.thisUpdate]

\* x509.CreateRevocationList(rand, template, issuer, priv)
CreateRevocationList(template, issuer, priv) ==
    [kind |-> "crl", issuer |-> issuer.subject, signedBy |-> priv.id,
     entries |-> template.list, thisUpdate |-> template.thisUpdate]

\* PKI.newCrl: an empty list signed by the first CA pair GetByCN returns:
\* [err, der]
newCrl(fs, now) ==
    LET caPairs == GetByCN(fs, "ca")
        dec == Decode(caPairs.pairs[1])
    IN  IF caPairs.err \/ dec.err THEN [err |-> TRUE, der |-> [kind |-> "nil"]]
        ELSE [err |-> FALSE,
              der |-> CreateRevocationList([list |-> <<>>, thisUpdate |-> now],
                                           dec.cert, dec.key)]

\* PKI.GetCRL at HEAD: [err, list, thisUpdate]
HeadGetCRL(crl, fs, now) ==
    LET got == HeadCrlGet(crl)
        fresh == newCrl(fs, now)
    IN  IF ~got.err
        THEN [err |-> FALSE, list |-> got.list, thisUpdate |-> got.thisUpdate]
        ELSE IF ~got.notExist \/ fresh.err
        THEN [err |-> TRUE, list |-> <<>>, thisUpdate |-> 0]
        ELSE [err |-> FALSE, list |-> fresh.der.entries, thisUpdate |-> fresh.der.thisUpdate]

\* PKI.RevokeOne at HEAD; outcome "put" (crlHolder.Put fails) or "ok"
HeadRevokeOne(serial, outcome) ==
    LET oldList == HeadGetCRL(crlFile, files, nOps + 1)
        ca == GetByCN(files, "ca")
        caPairs == SortDesc(ca.pairs)
        dec == Decode(caPairs[1])
        entries == Append(oldList.list, [sn |-> serial, time |-> nOps + 1])
        crlBytes == CreateRevocationList([list |-> entries, thisUpdate |-> oldList.thisUpdate],
                                         dec.cert, dec.key)
        crlPem == PemEncode(PEMx509CRLBlock, crlBytes)
    IN
    /\ nOps' = nOps + 1
    /\ revCalled' = Called(serial)
    /\ UNCHANGED <<serialFile, callerVars, storeVars, putVars, issued>>
    /\ IF oldList.err \/ ca.err \/ dec.err \/ outcome = "put"
       THEN UNCHANGED <<crlFile, revDone, revOrder>>
       ELSE crlFile' = writeFileAtomic(crlFile, crlPem, TRUE) /\ Done(serial)

NextHead ==
    /\ nOps < MaxRevOps
    /\ \/ \E outcome \in {"ok", "next", "key"} : HeadNewCa(outcome)
       \/ \E serial \in RevSerials : \E outcome \in {"ok", "put"} :
              HeadRevokeOne(serial, outcome)

SpecHead == Init /\ [][NextHead]_vars

\* the serials of the CRL file's revoked list, in list order
CrlSerials(crl) ==
    IF ~crl.exists \/ ParseCRL(crl.data).err THEN <<>>
    ELSE [i \in 1..Len(crl.data.der.entries) |-> crl.data.der.entries[i].sn]

\* C5: after any sequence of RevokeOne calls, repeated calls with the same
\* serial included, the CRL's revoked list holds each serial at most once and
\* lists the serials in the order of their first revocation.
C5_CrlIsOrderedSet == CrlSerials(crlFile) = revOrder

(***************************************************************************)
(* PKI.RevokeOne of pkg/pki called from several processes on one keydir,   *)
(* one step per lock operation and file access of FileCRLHolder            *)
(***************************************************************************)
\* a process calls RevokeOne(serial); GetCRL asks for the shared lock
RevokeCall(p, serial) ==
    /\ rpc[p] = "idle"
    /\ nOps < MaxCrlOps
    /\ nOps' = nOps + 1
    /\ rpc' = [rpc EXCEPT ![p] = "rlock"]
    /\ rSerial' = [rSerial EXCEPT ![p] = serial]
    /\ revCalled' = Called(serial)
    /\ UNCHANGED <<serialFile, serialVars, sideVars, storeVars, putVars, issued, crlFile,
                   revDone, revOrder, rPem, crlLock>>

\* FileCRLHolder.Get: h.locker.RLock() returns
RevokeRLock(p) ==
    /\ rpc[p] = "rlock"
    /\ CanLockSh(crlLock, p)
    /\ crlLock' = [crlLock EXCEPT ![p] = "sh"]
    /\ rpc' = [rpc EXCEPT ![p] = "get"]
    /\ UNCHANGED <<serialFile, serialVars, sideVars, storeVars, putVars, pkiVars, crlVars, rSerial, rPem>>

\* the rest of FileCRLHolder.Get (stat, read, parse, deferred Unlock), then
\* RevokeOne up to the new crlPem: the CA pair, the appended entry, removeDups
RevokeGet(p) ==
    LET old == CrlGet(crlFile)
        list == IF old.err THEN <<>> ELSE old.list
        ca == GetByCN(files, "ca")
        caPairs == SortDesc(ca.pairs)
        dec == Decode(caPairs[1])
        added == Append(list, [sn |-> rSerial[p], time |-> nOps])
        crlBytes == CreateCRL(dec.cert, dec.key, removeDups(added), nOps)
    IN
    /\ rpc[p] = "get"
    /\ crlLock' = [crlLock EXCEPT ![p] = "un"]
    /\ IF ca.err \/ dec.err
       THEN rpc' = [rpc EXCEPT ![p] = "idle"] /\ UNCHANGED rPem
       ELSE /\ rpc' = [rpc EXCEPT ![p] = "lock"]
            /\ rPem' = [rPem EXCEPT ![p] = PemEncode(PEMx509CRLBlock, crlBytes)]
    /\ UNCHANGED <<serialFile, serialVars, sideVars, storeVars, putVars, pkiVars, crlVars, rSerial>>

\* FileCRLHolder.Put: h.locker.TryLockContext(ctx, LockPeriod) returns true
RevokeLock(p) ==
    /\ rpc[p] = "lock"
    /\ CanLockEx(crlLock, p)
    /\ crlLock' = [crlLock EXCEPT ![p] = "ex"]
    /\ rpc' = [rpc EXCEPT ![p] = "write"]
    /\ UNCHANGED <<serialFile, serialVars, sideVars, storeVars, putVars, pkiVars, crlVars, rSerial, rPem>>

\* the lock stayed unavailable until LockTimeout: RevokeOne returns an error
RevokeLockTimeout(p) ==
    /\ rpc[p] = "lock"
    /\ ~CanLockEx(crlLock, p)
    /\ rpc' = [rpc EXCEPT ![p] = "idle"]
    /\ UNCHANGED <<serialFile, serialVars, sideVars, storeVars, putVars, pkiVars, crlVars, rSerial,
                   rPem, crlLock>>

\* writeFileAtomic(h.path, content), the deferred Unlock and the return
RevokePut(p, ok) ==
    /\ rpc[p] = "write"
    /\ crlFile' = writeFileAtomic(crlFile, rPem[p], ok)
    /\ crlLock' = [crlLock EXCEPT ![p] = "un"]
    /\ rpc' = [rpc EXCEPT ![p] = "idle"]
    /\ IF ok THEN Done(rSerial[p]) ELSE UNCHANGED <<revDone, revOrder>>
    /\ UNCHANGED <<serialFile, serialVars, sideVars, storeVars, putVars, pkiVars, revCalled, rSerial, rPem>>

\* serials revoked in the concurrent model (all below 2^63)
CrlSerialsRevoked == {<<1>>, <<2>>}

NextCrl ==
    \/ issued = <<>> /\ nOps < MaxCrlOps /\ NewCa(<<>>, "ok")
    \/ \E p \in Procs :
           \/ \E serial \in CrlSerialsRevoked : RevokeCall(p, serial)
           \/ RevokeRLock(p)
           \/ RevokeGet(p)
           \/ RevokeLock(p)
           \/ RevokeLockTimeout(p)
           \/ \E ok \in BOOLEAN : RevokePut(p, ok)

SpecCrl == Init /\ [][NextCrl]_vars

\* C4: when two or more processes call RevokeOne concurrently on the same
\* CRL file, every serial whose RevokeOne has returned success is reported
\* revoked by every later IsRevoked: no completed revocation is lost.
C4_NoLostRevocation == \A s \in revDone : IsRevoked(crlFile, s)

(***************************************************************************)
(* pkg/pki on a keydir whose crl.pem is missing, of size 0 or not a CRL    *)
(***************************************************************************)
\* the crl.pem the PKI may find: none, a file of size 0, bytes that are no CRL
FoundCrl == {NoFile, File([kind |-> "empty"]), File([kind |-> "raw", id |-> 1])}

InitFound == InitRest /\ crlFile \in FoundCrl

RECURSIVE RevokeEach(_, _, _, _, _, _)
\* the loop of RevokeAllByCN from the i-th pair on; the failAt-th RevokeOne
\* fails in crlHolder.Put and ends the loop: [err, crl, done, called]
RevokeEach(crl, fs, pairs, i, failAt, now) ==
    IF i > Len(pairs) THEN [err |-> FALSE, crl |-> crl, done |-> <<>>, called |-> {}]
    ELSE LET serial == pairs[i].serial
             r == RevokeOneOn(crl, fs, serial, now, IF i = failAt THEN "put" ELSE "ok")
             rest == RevokeEach(r.crl, fs, pairs, i + 1, failAt, now)
         IN  IF r.err
             THEN [err |-> TRUE, crl |-> crl, done |-> <<>>, called |-> {serial}]
             ELSE [err |-> rest.err, crl |-> rest.crl, done |-> <<serial>> \o rest.done,
                   called |-> {serial} \cup rest.called]

RECURSIVE FirstRevoked(_, _)
\* the order of first successful revocations after the serials of done
FirstRevoked(order, done) ==
    IF done = <<>> THEN order
    ELSE FirstRevoked(IF InSeq(done[1], order) THEN order ELSE Append(order, done[1]),
                      Tail(done))

\* the set of serials a crl file lists
Listed(crl) == {CrlSerials(crl)[i] : i \in 1..Len(CrlSerials(crl))}

\* PKI.RevokeAllByCN by a single caller
RevokeAllByCN(cn, failAt) ==
    LET got == GetByCN(files, cn)
        r == RevokeEach(crlFile, files, got.pairs, 1, failAt, nOps + 1)
    IN
    /\ nOps' = nOps + 1
    /\ crlFile' = r.crl
    /\ revCalled' = revCalled \cup r.called
    /\ revDone' = revDone \cup {r.done[i] : i \in 1..Len(r.done)}
    /\ revOrder' = FirstRevoked(revOrder, r.done)
    /\ seen' = [op |-> "RevokeAllByCN", cn |-> cn, err |-> got.err \/ r.err,
                before |-> Listed(crlFile), after |-> Listed(r.crl),
                pairs |-> [i \in 1..Len(got.pairs) |-> got.pairs[i].serial],
                failAt |-> failAt,
                stored |-> {SetString16(f.name) : f \in StoredPairs(files, cn)}]
    /\ UNCHANGED <<serialFile, serialVars, rcVars, crlFlag, hpc, spc, storeVars, putVars, issued>>

\* the common names RevokeAllByCN is called with
RevokedNames == {"alice", "ca"}

\* PKI.GetCRL: the holder's answer as it is
GetCRL(crl) == CrlGet(crl)

\* a caller asks for the CRL
GetCRLCall ==
    /\ nOps' = nOps + 1
    /\ seen' = [op |-> "GetCRL", crl |-> crlFile, res |-> GetCRL(crlFile)]
    /\ UNCHANGED <<serialFile, serialVars, rcVars, crlFlag, hpc, spc, storeVars, putVars,
                   issued, crlVars>>

NextFound ==
    /\ nOps < MaxRevOps
    /\ \/ NewCa(<<>>, "ok")
       \/ NewCert("alice", <<>>, "ok")
       \/ \E serial \in RevSerials : \E outcome \in {"ok", "put"} : RevokeOne(serial, outcome)
       \/ \E cn \in RevokedNames : \E failAt \in 0..2 : RevokeAllByCN(cn, failAt)
       \/ GetCRLCall

SpecFound == InitFound /\ [][NextFound]_vars

C12_RevokesAllOfCnOnly ==
    (seen.op = "RevokeAllByCN" /\ ~seen.err) =>
        /\ seen.stored \subseteq seen.after
        /\ seen.after \subseteq (seen.stored \cup seen.before)

(***************************************************************************)
(* FileCRLHolder.Put and Get called directly: the threads a1 and a2 share  *)
(* the holder (one flock.Flock) of process A, b1 uses the holder of        *)
(* process B.  One step per Flock call and file access.                    *)
(***************************************************************************)
\* what the holder steps leave alone
holderRest ==
    <<serialFile, serialVars, storeVars, putVars, issued, revVars, rpc, rSerial, rPem, spc>>

\* the flag l of every process's Flock
FlagL == [p \in Procs |-> crlFlag[p].l]

\* a thread calls Put(content)
HolderPut(t) ==
    /\ hpc[t] = "idle"
    /\ nOps < MaxHolderOps
    /\ nOps' = nOps + 1
    /\ hpc' = [hpc EXCEPT ![t] = "plock"]
    /\ UNCHANGED <<holderRest, crlFile, crlLock, crlFlag, seen>>

\* TryLockContext answers true: the flag l was set already, or the kernel
\* grants LOCK_EX|LOCK_NB to the Flock's descriptor
HolderTryLock(t) ==
    /\ hpc[t] = "plock"
    /\ TryLockGranted(FlagL, crlLock, ProcOf(t))
    /\ IF crlFlag[ProcOf(t)].l
       THEN UNCHANGED <<crlLock, crlFlag>>
       ELSE /\ crlLock' = [crlLock EXCEPT ![ProcOf(t)] = "ex"]
            /\ crlFlag' = [crlFlag EXCEPT ![ProcOf(t)].l = TRUE]
    /\ hpc' = [hpc EXCEPT ![t] = "pwrite"]
    /\ UNCHANGED <<holderRest, crlFile, nOps, seen>>

\* the lock stayed unavailable until LockTimeout: Put returns an error.  A
\* failed LOCK_EX|LOCK_NB on a descriptor that holds LOCK_SH may have
\* dropped that lock (the conversion removes the old lock first)
HolderTryLockTimeout(t, kept) ==
    /\ hpc[t] = "plock"
    /\ ~TryLockGranted(FlagL, crlLock, ProcOf(t))
    /\ crlLock' = IF kept THEN crlLock ELSE [crlLock EXCEPT ![ProcOf(t)] = "un"]
    /\ hpc' = [hpc EXCEPT ![t] = "idle"]
    /\ UNCHANGED <<holderRest, crlFile, crlFlag, nOps, seen>>

\* writeFileAtomic(h.path, content, 0644)
HolderWrite(t, content, ok) ==
    /\ hpc[t] = "pwrite"
    /\ crlFile' = writeFileAtomic(crlFile, content, ok)
    /\ hpc' = [hpc EXCEPT ![t] = "punlock"]
    /\ UNCHANGED <<holderRest, crlLock, crlFlag, nOps, seen>>

\* a thread calls Get()
HolderGet(t) ==
    /\ hpc[t] = "idle"
    /\ nOps < MaxHolderOps
    /\ nOps' = nOps + 1
    /\ hpc' = [hpc EXCEPT ![t] = "rlock"]
    /\ UNCHANGED <<holderRest, crlFile, crlLock, crlFlag, seen>>

\* Flock.RLock returns: the flag r was set already, or the blocking
\* flock(LOCK_SH) on the Flock's descriptor is granted (a LOCK_EX the
\* descriptor held becomes LOCK_SH)
HolderRLock(t) ==
    /\ hpc[t] = "rlock"
    /\ IF crlFlag[ProcOf(t)].r
       THEN UNCHANGED <<crlLock, crlFlag>>
       ELSE /\ CanLockSh(crlLock, ProcOf(t))
            /\ crlLock' = [crlLock EXCEPT ![ProcOf(t)] = "sh"]
            /\ crlFlag' = [crlFlag EXCEPT ![ProcOf(t)].r = TRUE]
    /\ hpc' = [hpc EXCEPT ![t] = "gread"]
    /\ UNCHANGED <<holderRest, crlFile, nOps, seen>>

\* os.Stat, ioutil.ReadFile and x509.ParseCRL of Get
HolderRead(t) ==
    /\ hpc[t] = "gread"
    /\ seen' = [op |-> "Get", by |-> t, res |-> CrlGet(crlFile)]
    /\ hpc' = [hpc EXCEPT ![t] = "gunlock"]
    /\ UNCHANGED <<holderRest, crlFile, crlLock, crlFlag, nOps>>

\* the deferred Flock.Unlock of Put and Get: nothing when neither flag is
\* set, else LOCK_UN, close the descriptor, clear both flags
HolderUnlock(t) ==
    /\ hpc[t] \in {"punlock", "gunlock"}
    /\ IF ~crlFlag[ProcOf(t)].l /\ ~crlFlag[ProcOf(t)].r
       THEN UNCHANGED <<crlLock, crlFlag>>
       ELSE /\ crlLock' = [crlLock EXCEPT ![ProcOf(t)] = "un"]
            /\ crlFlag' = [crlFlag EXCEPT ![ProcOf(t)] = [l |-> FALSE, r |-> FALSE]]
    /\ hpc' = [hpc EXCEPT ![t] = "idle"]
    /\ UNCHANGED <<holderRest, crlFile, nOps, seen>>

\* every step of one thread
HolderStep(t) ==
    \/ HolderPut(t)
    \/ HolderTryLock(t)
    \/ \E kept \in BOOLEAN : HolderTryLockTimeout(t, kept)
    \/ \E content \in PutContents : \E ok \in BOOLEAN : HolderWrite(t, content, ok)
    \/ HolderGet(t)
    \/ HolderRLock(t)
    \/ HolderRead(t)
    \/ HolderUnlock(t)

NextHolder == \E t \in Threads : HolderStep(t)

SpecHolder == Init /\ [][NextHolder]_vars

\* between the lock it was granted and its deferred Unlock
InPut(t) == hpc[t] \in {"pwrite", "punlock"}

InGet(t) == hpc[t] \in {"gread", "gunlock"}

\* C13: the CRL file is written only by a caller that holds the exclusive
\* lock, and while one caller holds it no other caller (of another process
\* or another thread sharing the same FileCRLHolder) holds the lock, shared
\* or exclusive.
C13_ExclusiveWriter ==
    \A t \in Threads :
        /\ hpc[t] = "pwrite" => crlLock[ProcOf(t)] = "ex"
        /\ InPut(t) => \A u \in Threads \ {t} : ~InPut(u) /\ ~InGet(u)

(***************************************************************************)
(* FileSerialProvider.Next of the root package: the provider embeds a      *)
(* flock.Flock on the counter file itself and rewrites the file in place   *)
(***************************************************************************)
\* p.TryLockContext(ctx, 1) returns true; a Flock without a descriptor opens
\* the counter file first, creating it when it is missing
RootNextLock(t) ==
    LET p == ProcOf(t) IN
    /\ npc[t] = "lock"
    /\ TryLockGranted(slock, sflock, p)
    /\ slock' = [slock EXCEPT ![p] = TRUE]
    /\ sflock' = [sflock EXCEPT ![p] = "ex"]
    /\ serialFile' = IF slock[p] \/ serialFile.exists THEN serialFile ELSE File(<<>>)
    /\ npc' = [npc EXCEPT ![t] = "ropen"]
    /\ UNCHANGED <<nBytes, nRes, nCalls, returned, outsideSerial>>

\* os.OpenFile(p.path, O_RDWR|O_CREATE, 0666) and ioutil.ReadAll(file)
RootNextRead(t) ==
    /\ npc[t] = "ropen"
    /\ serialFile' = IF serialFile.exists THEN serialFile ELSE File(<<>>)
    /\ nBytes' = [nBytes EXCEPT ![t] = IF serialFile.exists THEN serialFile.data ELSE <<>>]
    /\ npc' = [npc EXCEPT ![t] = "rtrunc"]
    /\ UNCHANGED <<slock, sflock, nRes, nCalls, returned, outsideSerial>>

\* res.SetString, res.Add and file.Truncate(0)
RootNextTruncate(t) ==
    /\ npc[t] = "rtrunc"
    /\ nRes' = [nRes EXCEPT ![t] = NextValue(nBytes[t])]
    /\ serialFile' = File(<<>>)
    /\ npc' = [npc EXCEPT ![t] = "rwrite"]
    /\ UNCHANGED <<slock, sflock, nBytes, nCalls, returned, outsideSerial>>

\* file.Seek(0, 0) and file.Write(res.Text(16)); either may fail
RootNextWrite(t, ok) ==
    /\ npc[t] = "rwrite"
    /\ serialFile' = IF ok THEN File(Text16(nRes[t])) ELSE serialFile
    /\ npc' = [npc EXCEPT ![t] = IF ok THEN "unlock_ok" ELSE "unlock_err"]
    /\ UNCHANGED <<slock, sflock, nBytes, nRes, nCalls, returned, outsideSerial>>

NextRootSerial ==
    \E t \in Threads :
        \/ NextCall(t)
        \/ RootNextLock(t)
        \/ NextLockTimeout(t)
        \/ RootNextRead(t)
        \/ RootNextTruncate(t)
        \/ \E ok \in BOOLEAN : RootNextWrite(t, ok)
        \/ NextReturn(t)

SpecRootSerial == Init /\ [][NextRootSerial]_vars

\* what a reader of the counter file gets
ReadFile(f) == IF f.exists THEN f.data ELSE <<>>

\* C14: a process reading the counter file at any moment during a
\* concurrent Next() sees either the complete previous value or the complete
\* next value, never an empty, truncated or partially written file: every
\* change of what a reader gets is to the complete text of the next value.
C14_ReaderSeesWholeValue ==
    [][ReadFile(serialFile') # ReadFile(serialFile) =>
           /\ ReadFile(serialFile') # <<>>
           /\ \E t \in Threads : ReadFile(serialFile') = Text16(NextValue(nBytes[t]))]_vars

\* the caller b1 keeps running whenever it can take a step; the threads of
\* the other process may stop anywhere, also while they hold the lock
SpecHolderFair == SpecHolder /\ WF_vars(HolderStep("b1"))

\* C15: every lock-acquiring operation (CRLHolder.Put and CRLHolder.Get
\* here) eventually returns to its caller; when another holds the lock
\* forever it returns (with a lock-timeout error) instead of blocking.
C15_LockingCallsReturn == (hpc["b1"] # "idle") ~> (hpc["b1"] = "idle")

(***************************************************************************)
(* DirKeyStorage.DeleteByCn among the Puts                                 *)
(***************************************************************************)
\* DirKeyStorage.DeleteByCn: os.Remove of <keydir>/<cn>, which removes a
\* directory only when it is empty: [dirs, files, err]
DeleteByCn(d, fs, cn) ==
    IF cn \notin d \/ {f \in fs : f.cn = cn} # {}
    THEN [dirs |-> d, files |-> fs, err |-> TRUE]
    ELSE [dirs |-> d \ {cn}, files |-> fs, err |-> FALSE]

\* a caller deletes a common name; seen keeps what the call met and left
StorageDeleteByCn(cn) ==
    LET r == DeleteByCn(dirs, files, cn)
        had == {SetString16(f.name) : f \in StoredPairs(files, cn)}
    IN
    /\ nPuts < MaxPuts
    /\ nPuts' = nPuts + 1
    /\ dirs' = r.dirs
    /\ files' = r.files
    /\ seen' = [op |-> "DeleteByCn", cn |-> cn, err |-> r.err, had |-> had,
                notFound |-> GetByCN(r.files, cn).err,
                left |-> {sn \in had : ~GetBySerial(r.files, sn).err}]
    /\ UNCHANGED <<serialFile, serialVars, rcVars, crlFlag, hpc, spc, lastPut, pkiVars, crlVars>>

NextDelete ==
    \/ NextStorage
    \/ \E cn \in {"alice", "ca"} : StorageDeleteByCn(cn)

SpecDelete == Init /\ [][NextDelete]_vars

\* C16: DeleteByCn(cn) on a CN directory that still contains stored pairs
\* succeeds and removes all of them: afterwards GetByCN(cn) returns NotFound
\* and GetBySerial finds none of the serials that were stored under that CN.
C16_DeleteRemovesAll ==
    (seen.op = "DeleteByCn" /\ seen.had # {}) =>
        /\ ~seen.err
        /\ seen.notFound
        /\ seen.left = {}

\* C17: in every state reachable by any sequence of NewCa, NewCert and
\* RevokeOne in which a CRL file exists, that CRL is signed by the stored CA
\* with the maximum serial.
C17_CrlSignedByLastCa ==
    (crlFile.exists /\ ~ParseCRL(crlFile.data).err) =>
        \E f \in StoredPairs(files, "ca") :
            /\ \A g \in StoredPairs(files, "ca") :
                   Cmp(SetString16(g.name), SetString16(f.name)) # 1
            /\ crlFile.data.der.signedBy = KeyOf(files, f).der.id

\* C18: every private-key file written by KeyStorage.Put has mode 0600 and
\* every certificate file has mode 0644, in every state after any sequence
\* of Puts.
C18_KeyFilesArePrivate ==
    \A f \in files :
        /\ f.ext = "key" => f.mode = "0600"
        /\ f.ext = "crt" => f.mode = "0644"

(***************************************************************************)
(* Issuance on a keydir that may hold no CA pair, by the PKI of pkg/pki    *)
(* and by the PKI at HEAD                                                  *)
(***************************************************************************)
\* PKI.NewClientCert(name, 0) at HEAD: NewCert(0, false, Client(), CN(name))
\* with createCert, which takes the serial after the CA pair was found and
\* rejects an empty CN after it took the serial; outcomes as for NewCa
HeadNewClientCert(name, outcome) ==
    LET certKey == GenerateKey(nOps + 1)
        ca == GetLastCA(files)
        dec == Decode(ca.pair)
        nx == SerialNext(serialFile, outcome # "next")
        template == [sn |-> nx.val, subject |-> name, isCA |-> FALSE,
                     keyUsage |-> {"DigitalSignature", "KeyAgreement"},
                     extKeyUsage |-> <<"ClientAuth">>, extra |-> <<"nsCertType:client">>]
        cert == CreateCertificate(template, dec.cert, certKey, dec.key)
        res == NewX509Pair(certKey, cert)
        put == Put(dirs, files, res, outcome)
    IN
    /\ nOps' = nOps + 1
    /\ UNCHANGED <<callerVars, putVars, crlVars>>
    /\ IF outcome = "keygen" \/ ca.err \/ dec.err
       THEN UNCHANGED <<serialFile, storeVars, issued>>
       ELSE IF nx.err \/ name = ""
       THEN serialFile' = nx.file /\ UNCHANGED <<storeVars, issued>>
       ELSE /\ serialFile' = nx.file
            /\ dirs' = put.dirs
            /\ files' = put.files
            /\ issued' = IF put.err THEN issued ELSE Append(issued, res)

\* NewCa stores the pair, or fails after the certificate file and before the
\* key file; the certificate calls meet every outcome
NextNoCa ==
    /\ nOps < MaxOps
    /\ \/ \E outcome \in {"ok", "key"} : NewCa(<<>>, outcome)
       \/ \E outcome \in {"ok", "key"} : HeadNewCa(outcome)
       \/ \E cn \in CertNames : \E outcome \in Outcomes : NewCert(cn, <<>>, outcome)
       \/ \E cn \in CertNames : \E outcome \in Outcomes : HeadNewClientCert(cn, outcome)

SpecNoCa == Init /\ [][NextNoCa]_vars

\* C19: NewCert on a PKI with no stored CA fails, and the failed call leaves
\* the serial counter, the key storage and the CRL unchanged (no serial is
\* consumed, no file is written).
C19_NoCaNoChange ==
    [][(/\ GetLastCA(files).err
        /\ \E cn \in CertNames : \E outcome \in Outcomes :
               NewCert(cn, <<>>, outcome) \/ HeadNewClientCert(cn, outcome))
       => /\ issued' = issued
          /\ serialFile' = serialFile
          /\ dirs' = dirs
          /\ files' = files
          /\ crlFile' = crlFile]_vars

\* certificate calls were made and nothing but them: the keydir is as
\* InitPKI left it
C19_Witness ==
    /\ nOps > 0
    /\ GetLastCA(files).err
    /\ dirs = {}
    /\ files = {}
    /\ issued = <<>>

\* C20: when the existing CRL file is non-empty but cannot be parsed,
\* RevokeOne fails and leaves the CRL file unchanged.
C20_UnparsableCrlIsFatal ==
    [][(/\ CrlGet(crlFile).err
        /\ \E serial \in RevSerials : \E outcome \in {"ok", "put"} :
               RevokeOne(serial, outcome))
       => /\ revDone' = revDone
          /\ crlFile' = crlFile]_vars

\* C21: de-duplication and revocation lookup treat serials as
\* arbitrary-precision integers: after revoking two distinct serials that
\* agree in their low 64 bits, both are in the CRL and IsRevoked is true for
\* both.
C21_BigSerialsBothRevoked ==
    \A s \in revDone : \A t \in revDone :
        (s # t /\ Int64(s) = Int64(t)) =>
            /\ {s, t} \subseteq Listed(crlFile)
            /\ IsRevoked(crlFile, s)
            /\ IsRevoked(crlFile, t)

\* DirKeyStorage.GetAll: every loadable pair of the keydir, in walk order,
\* each under the name of its directory
GetAll(fs) ==
    LET keep(f) == Loadable(fs, f)
        sel == SelectSeq(WalkDirs(fs, CnOrder), keep)
    IN  [i \in 1..Len(sel) |-> Loaded(fs, sel[i], sel[i].cn)]

\* C22: for a pair whose serial does not fit in a signed 64-bit integer,
\* after Put succeeds GetBySerial(serial) returns that pair and GetByCN and
\* GetAll include it, as they do for serials that fit.
C22_WideSerialLookups ==
    (lastPut # NoPair /\ ~FitsInt64(lastPut.serial)) =>
        /\ GetBySerial(files, lastPut.serial) = [err |-> FALSE, pair |-> lastPut]
        /\ InSeq(lastPut, GetByCN(files, lastPut.cn).pairs)
        /\ InSeq(lastPut, GetAll(files))

(***************************************************************************)
(* DirKeyStorage.Put and GetBySerial called concurrently for one target    *)
(* <keydir>/ca/2.crt and 2.key, one step per file access.  Put takes no    *)
(* lock.                                                                   *)
(***************************************************************************)
\* the pairs the callers put: one common name and serial, two contents
SamePairs == {X509Pair(c, c, "ca", <<2>>) : c \in PutContents}

\* what the concurrent storage steps leave alone
putRest == <<serialFile, serialVars, rcVars, crlFlag, hpc, pkiVars, crlVars>>

\* the file of the target with the extension, as a set (empty: no file)
Target(fs, ext) == {f \in fs : f.cn = "ca" /\ f.name = Text16(<<2>>) /\ f.ext = ext}

\* a thread calls Put(pair); makePath makes the directory
PutCall(t, pair) ==
    /\ spc[t].pc = "idle"
    /\ nPuts < MaxPuts
    /\ nPuts' = nPuts + 1
    /\ dirs' = dirs \cup {pair.cn}
    /\ spc' = [spc EXCEPT ![t] = [@ EXCEPT !.pc = "cert", !.pair = pair]]
    /\ UNCHANGED <<putRest, files, lastPut, seen>>

\* the return of a Put with an error
PutFailed(t) == [spc EXCEPT ![t] = [@ EXCEPT !.pc = "idle", !.failed = TRUE]]

\* writeFileAtomic(certPath, pair.CertPemBytes(), 0644)
PutCert(t, ok) ==
    LET pair == spc[t].pair IN
    /\ spc[t].pc = "cert"
    /\ files' = IF ok THEN WriteFile(files, pair.cn, Text16(pair.serial), "crt", pair.cert, "0644")
                ELSE files
    /\ spc' = IF ok THEN [spc EXCEPT ![t].pc = "key"] ELSE PutFailed(t)
    /\ UNCHANGED <<putRest, dirs, lastPut, nPuts, seen>>

\* writeFileAtomic(keyPath, pair.KeyPemBytes(), 0644) and the return
PutKey(t, ok) ==
    LET pair == spc[t].pair IN
    /\ spc[t].pc = "key"
    /\ files' = IF ok THEN WriteFile(files, pair.cn, Text16(pair.serial), "key", pair.key, "0644")
                ELSE files
    /\ spc' = IF ok THEN [spc EXCEPT ![t].pc = "idle"] ELSE PutFailed(t)
    /\ lastPut' = IF ok THEN pair ELSE lastPut
    /\ UNCHANGED <<putRest, dirs, nPuts, seen>>

\* what GetBySerial returns when the walk kept no pair
NotFound == [err |-> TRUE, pair |-> NoPair]

\* a thread calls GetBySerial(2); the walk meets 2.crt, if it is there, and
\* reads it
LookupCert(t) ==
    LET crt == Target(files, "crt") IN
    /\ spc[t].pc = "idle"
    /\ IF crt = {}
       THEN /\ seen' = [op |-> "GetBySerial", by |-> t, after |-> lastPut # NoPair,
                        res |-> NotFound]
            /\ UNCHANGED spc
       ELSE /\ spc' = [spc EXCEPT ![t] = [@ EXCEPT !.pc = "rkey", !.after = lastPut # NoPair,
                                                    !.cert = (CHOOSE f \in crt : TRUE).data]]
            /\ UNCHANGED seen
    /\ UNCHANGED <<putRest, storeVars, putVars>>

\* the walk reads 2.key: without it the file is skipped, with it the pair
\* is imported and returned
LookupKey(t) ==
    LET key == Target(files, "key") IN
    /\ spc[t].pc = "rkey"
    /\ seen' = [op |-> "GetBySerial", by |-> t, after |-> spc[t].after,
                res |-> IF key = {} THEN NotFound
                        ELSE [err |-> FALSE,
                              pair |-> X509Pair((CHOOSE f \in key : TRUE).data, spc[t].cert,
                                                "ca", <<2>>)]]
    /\ spc' = [spc EXCEPT ![t] = [@ EXCEPT !.pc = "idle", !.cert = [kind |-> "nil"]]]
    /\ UNCHANGED <<putRest, storeVars, putVars>>

\* the callers of Put, one in each process, and the caller of GetBySerial
Writers == {"a1", "b1"}

Readers == {"a2"}

NextPuts ==
    \/ \E t \in Writers :
           \/ \E pair \in SamePairs : PutCall(t, pair)
           \/ \E ok \in BOOLEAN : PutCert(t, ok)
           \/ \E ok \in BOOLEAN : PutKey(t, ok)
    \/ \E t \in Readers : LookupCert(t) \/ LookupKey(t)

SpecPuts == Init /\ [][NextPuts]_vars

\* C23: after two concurrent Put calls for the same (cn, serial) with
\* different contents have both returned, the stored .crt and .key come from
\* the same Put: the stored pair equals one of the two pairs that were put,
\* never the cert of one with the key of the other.
C23_PairFromOnePut ==
    (/\ \A t \in Threads : spc[t].pc = "idle" /\ ~spc[t].failed
     /\ lastPut # NoPair)
        => GetBySerial(files, <<2>>).pair \in SamePairs

(***************************************************************************)
(* The same callers on the DirKeyStorage whose Put writes both files with  *)
(* ioutil.WriteFile: open with O_TRUNC, write, close                       *)
(***************************************************************************)
\* ioutil.WriteFile opens the certificate file (pc "cert") or the key file
\* (pc "key") with O_WRONLY|O_CREATE|O_TRUNC: the file is there and empty
IoPutOpen(t, ok) ==
    LET pair == spc[t].pair
        ext == IF spc[t].pc = "cert" THEN "crt" ELSE "key"
        perm == IF spc[t].pc = "cert" THEN "0644" ELSE "0600"
    IN
    /\ spc[t].pc \in {"cert", "key"}
    /\ files' = IF ok THEN IoWriteFile(files, pair.cn, Text16(pair.serial), ext, Truncated, perm)
                ELSE files
    /\ spc' = IF ok THEN [spc EXCEPT ![t].pc = IF ext = "crt" THEN "certw" ELSE "keyw"]
              ELSE PutFailed(t)
    /\ UNCHANGED <<putRest, dirs, lastPut, nPuts, seen>>

\* the Write and Close of ioutil.WriteFile; after the key file Put returns
IoPutWrite(t, ok) ==
    LET pair == spc[t].pair
        ext == IF spc[t].pc = "certw" THEN "crt" ELSE "key"
        data == IF ext = "crt" THEN pair.cert ELSE pair.key
    IN
    /\ spc[t].pc \in {"certw", "keyw"}
    /\ files' = IF ok THEN IoWriteFile(files, pair.cn, Text16(pair.serial), ext, data, "0600")
                ELSE files
    /\ spc' = IF ~ok THEN PutFailed(t)
              ELSE [spc EXCEPT ![t].pc = IF ext = "crt" THEN "key" ELSE "idle"]
    /\ lastPut' = IF ok /\ ext = "key" THEN pair ELSE lastPut
    /\ UNCHANGED <<putRest, dirs, nPuts, seen>>

NextIoPuts ==
    \/ \E t \in Writers :
           \/ \E pair \in SamePairs : PutCall(t, pair)
           \/ \E ok \in BOOLEAN : IoPutOpen(t, ok)
           \/ \E ok \in BOOLEAN : IoPutWrite(t, ok)
    \/ \E t \in Readers : LookupCert(t) \/ LookupKey(t)

SpecIoPuts == Init /\ [][NextIoPuts]_vars

\* C24: a GetBySerial that runs concurrently with a Put never returns a pair
\* whose cert or key bytes are empty or partially written; and once Put has
\* returned, GetBySerial in any process returns the complete pair.
C24_LookupSeesWholeFiles ==
    seen.op = "GetBySerial" =>
        /\ ~seen.res.err =>
               seen.res.pair.cert \in PutContents /\ seen.res.pair.key \in PutContents
        /\ seen.after => ~seen.res.err

(***************************************************************************)
(* NewCa with the caller's options, by the PKI of pkg/pki and by the PKI   *)
(* at HEAD                                                                 *)
(***************************************************************************)
NextCa ==
    /\ nOps < MaxOps
    /\ \E outcome \in Outcomes :
           \/ \E opts \in OptLists : NewCa(opts, outcome)
           \/ \E opts \in {<<>>, <<CN("alice")>>} : HeadNewCaWith(opts, outcome)

SpecCa == Init /\ [][NextCa]_vars

\* C25: after a successful NewCa, with any options passed, the new pair is
\* stored under CN "ca" and GetLastCA returns exactly the pair that NewCa
\* just returned.
C25_NewCaIsLastCa ==
    [][issued' # issued =>
           /\ Last(issued').cn = "ca"
           /\ GetLastCA(files') = [err |-> FALSE, pair |-> Last(issued')]]_vars

\* C26: every end-entity certificate carries exactly one Netscape Cert Type
\* extension, and its value is that of the last role preset applied: a later
\* role option replaces what the default template set, it does not add to it.
C26_OneNetscapeCertType ==
    \A i \in 1..Len(issued) :
        LET d == Decode(issued[i]) IN
        (~d.err /\ ~d.cert.isCA) =>
            /\ Len(d.cert.extra) = 1
            /\ d.cert.extra[1] = IF d.cert.extKeyUsage = <<"ServerAuth">>
                                 THEN "nsCertType:server" ELSE "nsCertType:client"

\* C27: the role alone determines the certificate's usage fields: client
\* gives KeyUsage DigitalSignature|KeyAgreement, ExtKeyUsage [ClientAuth]
\* and the Netscape client value; server gives DigitalSignature|
\* KeyAgreement|KeyEncipherment, [ServerAuth] and the server value; CA gives
\* IsCA with KeyUsage DigitalSignature|CertSign|CRLSign; the role presets
\* produce these same fields.
C27_RoleDeterminesUsage ==
    \A i \in 1..Len(issued) :
        LET c == Decode(issued[i]).cert IN
        ~Decode(issued[i]).err =>
            IF c.isCA
            THEN c.keyUsage = {"DigitalSignature", "CertSign", "CRLSign"}
            ELSE \/ /\ c.keyUsage = {"DigitalSignature", "KeyAgreement"}
                    /\ c.extKeyUsage = <<"ClientAuth">>
                    /\ c.extra = <<"nsCertType:client">>
                 \/ /\ c.keyUsage = {"DigitalSignature", "KeyAgreement", "KeyEncipherment"}
                    /\ c.extKeyUsage = <<"ServerAuth">>
                    /\ c.extra = <<"nsCertType:server">>

\* C28: if RevokeOne fails for some pair during RevokeAllByCN, the call
\* returns that error at once: pairs visited earlier stay revoked in the
\* CRL and pairs not yet visited are not revoked by this call.
C28_RevokeAllStopsAtError ==
    (seen.op = "RevokeAllByCN" /\ seen.failAt \in 1..Len(seen.pairs)) =>
        /\ seen.err
        /\ \A i \in 1..Len(seen.pairs) :
               /\ i < seen.failAt => seen.pairs[i] \in seen.after
               /\ (i >= seen.failAt /\ seen.pairs[i] \in seen.after) =>
                      \/ seen.pairs[i] \in seen.before
                      \/ \E j \in 1..(seen.failAt - 1) : seen.pairs[j] = seen.pairs[i]

(***************************************************************************)
(* RevokeAllByCN over pairs put directly into the storage                  *)
(***************************************************************************)
NextOrder ==
    \/ \E pair \in {q \in PutPairs : q.cn = "alice"} : StoragePut(pair, "ok")
    \/ nOps < MaxOps /\ NewCa(<<>>, "ok")
    \/ nOps < MaxOps /\ RevokeAllByCN("alice", 0)

SpecOrder == Init /\ [][NextOrder]_vars

\* C29: after RevokeAllByCN(cn) on a PKI whose CRL was empty, the revoked
\* entries appear in ascending numeric serial order (smallest serial first),
\* for any set of serials stored under that CN.
C29_RevokedInSerialOrder ==
    (seen.op = "RevokeAllByCN" /\ ~seen.err /\ seen.before = {}) =>
        \A i, j \in 1..Len(CrlSerials(crlFile)) :
            i < j => Cmp(CrlSerials(crlFile)[i], CrlSerials(crlFile)[j]) = -1

\* C30: when several stored certificates have the same serial (under
\* different CNs), GetBySerial returns the first match met in directory
\* traversal order.
C30_FirstMatchBySerial ==
    \A serial \in PutSerials :
        (/\ FitsInt64(serial)
         /\ \A cn \in {"alice", "ca"} :
                \E f \in StoredPairs(files, cn) : f.name = Text16(serial)) =>
            LET first == CHOOSE f \in StoredPairs(files, CnOrder[1]) : f.name = Text16(serial)
            IN  GetBySerial(files, serial) =
                    [err |-> FALSE, pair |-> Loaded(files, first, CnOrder[1])]

(***************************************************************************)
(* DirKeyStorage.DeleteBySerial                                            *)
(***************************************************************************)
\* os.Remove of one file of the pair p: the path is built from p.CN() and
\* p.Serial().Text(16)
RemoveFile(fs, p, ext) ==
    {f \in fs : ~(f.cn = p.cn /\ f.name = Text16(p.serial) /\ f.ext = ext)}

\* DirKeyStorage.DeleteBySerial: [files, err]; outcome names the os.Remove
\* that fails, if any
DeleteBySerial(fs, serial, outcome) ==
    LET got == GetBySerial(fs, serial)
        noCert == RemoveFile(fs, got.pair, "crt")
        noKey == RemoveFile(noCert, got.pair, "key")
    IN  IF got.err THEN [files |-> fs, err |-> TRUE]
        ELSE IF outcome = "cert" \/ noCert = fs THEN [files |-> fs, err |-> TRUE]
        ELSE IF outcome = "key" \/ noKey = noCert THEN [files |-> noCert, err |-> TRUE]
        ELSE [files |-> noKey, err |-> FALSE]

\* a caller deletes a pair by its serial; seen keeps the files before and after
StorageDeleteBySerial(serial, outcome) ==
    LET r == DeleteBySerial(files, serial, outcome) IN
    /\ nPuts < MaxPuts
    /\ nPuts' = nPuts + 1
    /\ files' = r.files
    /\ seen' = [op |-> "DeleteBySerial", serial |-> serial, outcome |-> outcome,
                err |-> r.err, before |-> files, after |-> r.files]
    /\ UNCHANGED <<serialFile, serialVars, rcVars, crlFlag, hpc, spc, dirs, lastPut,
                   pkiVars, crlVars>>

NextDeleteSerial ==
    \/ NextStorage
    \/ \E serial \in PutSerials : \E outcome \in {"ok", "cert", "key"} :
           StorageDeleteBySerial(serial, outcome)

SpecDeleteSerial == Init /\ [][NextDeleteSerial]_vars

\* the files of the stored pairs with the given serial, under any common name
PairFiles(fs, serial) ==
    {f \in fs : f.name = Text16(serial) /\ \E cn \in {"alice", "ca"} :
                    f.cn = cn /\ \E c \in StoredPairs(fs, cn) : c.name = f.name}

\* C31: DeleteBySerial(s) removes exactly the .crt and .key files of the pair
\* with serial s and leaves every other stored pair unchanged; when no stored
\* pair has serial s it returns an error and changes nothing (no os.Remove
\* failing).
C31_DeleteBySerialExact ==
    (seen.op = "DeleteBySerial" /\ seen.outcome = "ok") =>
        IF PairFiles(seen.before, seen.serial) = {}
        THEN seen.err /\ seen.after = seen.before
        ELSE /\ ~seen.err
             /\ \E cn \in {"alice", "ca"} :
                    LET gone == {f \in PairFiles(seen.before, seen.serial) : f.cn = cn}
                    IN  gone # {} /\ seen.after = seen.before \ gone
(***************************************************************************)
(* A keydir that also holds files the storage did not write                *)
(***************************************************************************)
\* the base name "g", which is no hexadecimal number
ForeignName == <<103>>

\* the test fixture: os.MkdirAll of the CN directory and ioutil.WriteFile of
\* one file into it
Fixture(cn, ext) ==
    /\ nPuts < MaxPuts
    /\ nPuts' = nPuts + 1
    /\ dirs' = dirs \cup {cn}
    /\ files' = IoWriteFile(files, cn, ForeignName, ext, [kind |-> "raw", id |-> 1], "0600")
    /\ UNCHANGED <<serialFile, callerVars, lastPut, pkiVars, crlVars>>

NextSkip ==
    \/ NextStorage
    \/ \E cn \in {"alice", "ca"} : \E ext \in {"crt", "key"} : Fixture(cn, ext)

SpecSkip == Init /\ [][NextSkip]_vars

\* the .crt files under cn whose base name is a hexadecimal number and whose
\* .key sibling is there
ValidCerts(fs, cn) ==
    {f \in fs : /\ f.cn = cn /\ f.ext = "crt" /\ HasKey(fs, f)
                /\ f.name # <<>> /\ Len(HexPrefix(f.name)) = Len(f.name)}

\* C32: GetByCN skips, without reporting an error for them, every .crt file
\* whose base name is not a hex serial or whose .key sibling cannot be read,
\* returns the remaining valid pairs, and returns a NotFound error when no
\* valid pair remains.
C32_GetByCnSkipsInvalid ==
    \A cn \in {"alice", "ca"} :
        LET r == GetByCN(files, cn)
            valid == ValidCerts(files, cn)
        IN  IF valid = {} THEN r.err
            ELSE /\ ~r.err
                 /\ Len(r.pairs) = Cardinality(valid)
                 /\ {r.pairs[i] : i \in 1..Len(r.pairs)} =
                        {X509Pair(KeyOf(files, f), f.data, cn, SetString16(f.name)) :
                             f \in valid}
\* C33: GetByCN called with an empty CN returns NotFound, whatever pairs the
\* storage contains.
C33_EmptyCnNotFound == GetByCN(files, "").err
(***************************************************************************)
(* WriteFileAtomic / writeFileAtomic, step by step                         *)
(***************************************************************************)
\* the extension of the temp file ioutil.TempFile makes beside a target
TempExt(ext) == IF ext = "crt" THEN "crt.tmp" ELSE "key.tmp"

\* the deferred os.Remove(fd.Name()) that leaves the temp file in place
RemoveTemp_Keep(fs, cn, name, ext) == fs

\* the deferred os.Remove(fd.Name())
RemoveTemp(fs, cn, name, ext) ==
    {f \in fs : ~(f.cn = cn /\ f.name = name /\ f.ext = TempExt(ext))}

\* WriteFileAtomic(path, r, mode): [files, err]; outcome is "ok" or the step
\* that fails
WriteFileAtomic(fs, cn, name, ext, data, mode, outcome) ==
    LET temp(d, m) == [cn |-> cn, name |-> name, ext |-> TempExt(ext), data |-> d, mode |-> m]
        created == fs \cup {temp([kind |-> "empty"], "0600")}
        copied == (fs \ {temp([kind |-> "empty"], "0600")}) \cup {temp(data, "0600")}
        chmoded == (fs \ {temp(data, "0600")}) \cup {temp(data, mode)}
        renamed == WriteFile(fs, cn, name, ext, data, mode)
    IN  IF outcome = "temp" THEN [files |-> fs, err |-> TRUE]
        ELSE IF outcome = "copy"
        THEN [files |-> RemoveTemp(created, cn, name, ext), err |-> TRUE]
        ELSE IF outcome \in {"sync", "close", "chmod"}
        THEN [files |-> RemoveTemp(copied, cn, name, ext), err |-> TRUE]
        ELSE IF outcome = "rename"
        THEN [files |-> RemoveTemp(chmoded, cn, name, ext), err |-> TRUE]
        ELSE [files |-> RemoveTemp(renamed, cn, name, ext), err |-> FALSE]

\* a caller writes one file of the keydir; seen keeps the files before
AtomicWrite(cn, ext, data, outcome) ==
    LET r == WriteFileAtomic(files, cn, <<50>>, ext, data, "0644", outcome) IN
    /\ nPuts < MaxPuts
    /\ nPuts' = nPuts + 1
    /\ files' = r.files
    /\ seen' = [op |-> "writeFileAtomic", cn |-> cn, ext |-> ext, data |-> data,
                outcome |-> outcome, err |-> r.err, before |-> files]
    /\ UNCHANGED <<serialFile, serialVars, rcVars, crlFlag, hpc, spc, dirs, lastPut,
                   pkiVars, crlVars>>

NextAtomic ==
    \E cn \in {"alice", "ca"} : \E ext \in {"crt", "key"} : \E data \in PutContents :
        \E outcome \in {"ok", "temp", "copy", "sync", "close", "chmod", "rename"} :
            AtomicWrite(cn, ext, data, outcome)

SpecAtomic == Init /\ [][NextAtomic]_vars

\* C34: when writeFileAtomic fails at any step, the target file keeps its
\* previous content and no temp file is left in the directory; after a
\* successful call no temp file is left either and the target holds exactly
\* the new content.
C34_AtomicWriteAllOrNothing ==
    seen.op = "writeFileAtomic" =>
        LET target(fs) == {f \in fs : f.cn = seen.cn /\ f.name = <<50>> /\ f.ext = seen.ext}
        IN  /\ \A f \in files : f.ext \in {"crt", "key"}
            /\ seen.outcome # "ok" => seen.err /\ target(files) = target(seen.before)
            /\ seen.outcome = "ok" =>
                   /\ ~seen.err
                   /\ \E f \in files : target(files) = {f} /\ f.data = seen.data

\* a write failed after the temp file was made, over a target that was there
C34_Witness ==
    /\ seen.op = "writeFileAtomic"
    /\ seen.outcome = "rename"
    /\ \E f \in seen.before : f.cn = seen.cn /\ f.ext = seen.ext /\ f.data # seen.data
(***************************************************************************)
(* FileSerialProvider.Next over a counter file that is not a hex number    *)
(***************************************************************************)
\* counter file contents that are no hexadecimal number: "g" and "1g"
Malformed == {<<103>>, <<49, 103>>}

\* the test fixture: ioutil.WriteFile of the counter file before any call
SerialFixture(content) ==
    /\ \A t \in Threads : nCalls[t] = 0
    /\ serialFile \in {Absent, File(<<>>)}
    /\ serialFile' = File(content)
    /\ UNCHANGED <<slock, sflock, npc, nBytes, nRes, nCalls, returned, outsideSerial>>

NextMalformed ==
    \/ \E content \in Malformed : SerialFixture(content)
    \/ NextSerial

SpecMalformed == Init /\ [][NextMalformed]_vars

\* C35: when the counter file holds content that is not valid hexadecimal,
\* Next() treats the stored value as 0: it returns 1 and stores 1, without
\* error.
C35_MalformedCounterIsZero ==
    \A t \in Threads :
        (npc[t] = "unlock_ok" /\ nBytes[t] \in Malformed) => nRes[t] = <<1>>
\* C36: a Next() call that returns an error leaves the persisted counter
\* value unchanged: a failed call never truncates, resets or advances the
\* counter (stated for a call that no other caller runs beside: the file
\* when the call fails is the file the call read).
C36_FailedNextKeepsCounter ==
    \A t \in Threads :
        (/\ npc[t] = "unlock_err"
         /\ \A u \in Threads \ {t} : nCalls[u] = 0) =>
            ReadFile(serialFile) = nBytes[t]
\* C37: RevokeOne is idempotent on the revoked set: calling RevokeOne(s) for
\* a serial s that is already revoked leaves the list of revoked serials,
\* their order and the original revocation time of every existing entry
\* unchanged.  Every step leaves the entries of the CRL as they are or
\* appends one entry whose serial was not listed.
C37_RevokeOneIdempotent ==
    [][LET old == CrlGet(crlFile).list
           new == CrlGet(crlFile').list
       IN  \/ new = old
           \/ /\ Len(new) = Len(old) + 1
              /\ Front(new) = old
              /\ \A i \in 1..Len(old) : old[i].sn # Last(new).sn]_vars

\* RevokeOne(1) succeeded a second time: the CRL was rewritten after the
\* time of its only entry
C37_Witness ==
    /\ revCalled = {<<1>>}
    /\ crlFile.exists
    /\ ~CrlGet(crlFile).err
    /\ Len(CrlGet(crlFile).list) = 1
    /\ crlFile.data.der.thisUpdate > CrlGet(crlFile).list[1].time
(***************************************************************************)
(* IsRevoked over a CRL file that FileCRLHolder.Put filled with bytes that *)
(* are no CRL                                                              *)
(***************************************************************************)
\* FileCRLHolder.Put(content) by a single caller, content being no CRL
HolderPutContent(content) ==
    /\ nOps' = nOps + 1
    /\ crlFile' = writeFileAtomic(crlFile, content, TRUE)
    /\ UNCHANGED <<serialFile, callerVars, storeVars, putVars, issued, revVars>>

NextBroken ==
    /\ nOps < MaxRevOps
    /\ \/ NewCa(<<>>, "ok")
       \/ \E serial \in RevSerials : \E outcome \in {"ok", "put"} : RevokeOne(serial, outcome)
       \/ HolderPutContent([kind |-> "raw", id |-> 1])

SpecBroken == Init /\ [][NextBroken]_vars

\* C38: IsRevoked never fails: when the CRL cannot be read or parsed it
\* returns false for every serial, including serials that were revoked
\* earlier.
C38_UnreadableCrlRevokesNothing ==
    CrlGet(crlFile).err => \A serial \in RevSerials : IsRevoked(crlFile, serial) = FALSE

\* the CRL file was overwritten after a successful RevokeOne
C38_Witness == CrlGet(crlFile).err /\ revDone # {}
(***************************************************************************)
(* PKI.RevokeOne of package easyrsa                                        *)
(***************************************************************************)
\* PKI.RevokeOne of package easyrsa by a single caller.  GetByCN gives an
\* empty slice and no error for a ca directory without a loadable pair, and
\* caPairs[0] of it panics; with a pair the body is that of pkg/pki.  seen
\* keeps whether a CA pair that decodes was stored and how the call ended.
RootRevokeOne(serial) ==
    LET got == RootGetByCN(dirs, files, "ca")
        panic == ~got.err /\ Len(got.pairs) = 0
        r == IF got.err \/ panic THEN [err |-> got.err, crl |-> crlFile]
             ELSE RevokeOneOn(crlFile, files, serial, nOps + 1, "ok")
    IN
    /\ nOps < MaxOps
    /\ nOps' = nOps + 1
    /\ crlFile' = r.crl
    /\ seen' = [op |-> "RevokeOne", serial |-> serial, err |-> r.err, panic |-> panic,
                before |-> crlFile,
                validCa |-> \E f \in StoredPairs(files, "ca") :
                                ~Decode(X509Pair(KeyOf(files, f), f.data, "ca", <<>>)).err]
    /\ UNCHANGED <<serialFile, serialVars, rcVars, crlFlag, hpc, spc, storeVars, putVars,
                   issued, revVars>>

NextRootRevoke ==
    \/ \E pair \in {q \in PutPairs : q.cn = "ca"} : \E outcome \in {"ok", "cert"} :
           RootStoragePut(pair, outcome)
    \/ \E serial \in RevSerials : RootRevokeOne(serial)

SpecRootRevoke == Init /\ [][NextRootRevoke]_vars

\* C39: RevokeOne on a PKI that holds no valid CA pair returns an error and
\* leaves the CRL file unchanged: it does not panic and does not create or
\* rewrite the CRL.
C39_RevokeWithoutCaFails ==
    (seen.op = "RevokeOne" /\ ~seen.validCa) =>
        /\ seen.err
        /\ ~seen.panic
        /\ crlFile = seen.before
====
